---- MODULE Spec2Model ----
(***************************************************************************)
(* Model of the notebook analysis engine of colab-gui-generator            *)
(* (src/core/notebook_parser.py) and of the launcher entry point that      *)
(* feeds it (src/main.py).                                                  *)
(*                                                                         *)
(* Text is modelled character by character: a Python str is a sequence of  *)
(* one-character strings, so that re.search / re.finditer / re.sub,        *)
(* str.lower, str.strip, str.title, int() and float() are computed the way *)
(* the interpreter computes them and not assumed.                          *)
(***************************************************************************)
EXTENDS Integers, Sequences, FiniteSets, TLC

(***************************************************************************)
(* Characters and the str methods the parser uses                          *)
(***************************************************************************)

NL == "\n"

UpperChars == {"A","B","C","D","E","F","G","H","I","J","K","L","M",
               "N","O","P","Q","R","S","T","U","V","W","X","Y","Z"}

LowerChars == {"a","b","c","d","e","f","g","h","i","j","k","l","m",
               "n","o","p","q","r","s","t","u","v","w","x","y","z"}

DigitChars == {"0","1","2","3","4","5","6","7","8","9"}

SpaceChars == {" ", "\n", "\t"}

QuoteChars == {"'", "\""}

\* str.lower() on one character
LowerMap ==
  [c \in UpperChars |->
     CASE c = "A" -> "a" [] c = "B" -> "b" [] c = "C" -> "c" [] c = "D" -> "d"
       [] c = "E" -> "e" [] c = "F" -> "f" [] c = "G" -> "g" [] c = "H" -> "h"
       [] c = "I" -> "i" [] c = "J" -> "j" [] c = "K" -> "k" [] c = "L" -> "l"
       [] c = "M" -> "m" [] c = "N" -> "n" [] c = "O" -> "o" [] c = "P" -> "p"
       [] c = "Q" -> "q" [] c = "R" -> "r" [] c = "S" -> "s" [] c = "T" -> "t"
       [] c = "U" -> "u" [] c = "V" -> "v" [] c = "W" -> "w" [] c = "X" -> "x"
       [] c = "Y" -> "y" [] c = "Z" -> "z"]

\* str.upper() on one character
UpperMap ==
  [c \in LowerChars |-> CHOOSE u \in UpperChars : LowerMap[u] = c]

LowerChar(c) == IF c \in UpperChars THEN LowerMap[c] ELSE c

UpperChar(c) == IF c \in LowerChars THEN UpperMap[c] ELSE c

\* str.lower()
Lower(s) == [i \in 1..Len(s) |-> LowerChar(s[i])]

Min(a, b) == IF a <= b THEN a ELSE b

\* s[i:j] with 1-based inclusive bounds, empty when j < i
Slice(s, i, j) == IF j < i THEN <<>> ELSE SubSeq(s, i, j)

\* ''.join(parts)
RECURSIVE Join(_)
Join(parts) ==
  IF parts = <<>> THEN <<>> ELSE Head(parts) \o Join(Tail(parts))

\* sep.join(parts)
RECURSIVE JoinWith(_, _)
JoinWith(sep, parts) ==
  IF parts = <<>> THEN <<>>
  ELSE IF Len(parts) = 1 THEN parts[1]
  ELSE parts[1] \o sep \o JoinWith(sep, Tail(parts))

\* s.startswith(word, i)
LitAt(s, i, word) ==
  /\ i + Len(word) - 1 <= Len(s)
  /\ SubSeq(s, i, i + Len(word) - 1) = word

\* str.replace(old, new) for a non-empty old, from position i on
RECURSIVE Replace(_, _, _, _)
Replace(s, old, new, i) ==
  IF i > Len(s) THEN <<>>
  ELSE IF LitAt(s, i, old)
       THEN new \o Replace(s, old, new, i + Len(old))
       ELSE <<s[i]>> \o Replace(s, old, new, i + 1)

\* str.strip(chars): drop leading and trailing characters of the set
RECURSIVE LStripAt(_, _, _)
LStripAt(s, cs, i) ==
  IF i <= Len(s) /\ s[i] \in cs THEN LStripAt(s, cs, i + 1) ELSE i

RECURSIVE RStripAt(_, _, _)
RStripAt(s, cs, j) ==
  IF j >= 1 /\ s[j] \in cs THEN RStripAt(s, cs, j - 1) ELSE j

Strip(s, cs) == Slice(s, LStripAt(s, cs, 1), RStripAt(s, cs, Len(s)))

\* str.title(): a cased character is upper-cased after an uncased one and
\* lower-cased after a cased one
Title(s) ==
  [i \in 1..Len(s) |->
     IF i > 1 /\ s[i - 1] \in UpperChars \cup LowerChars
     THEN LowerChar(s[i]) ELSE UpperChar(s[i])]

(***************************************************************************)
(* Regular expressions.  A pattern is a sequence of atoms:                 *)
(*   lit  - an ordered alternation of literal strings   (?:a|b|c)          *)
(*   rep  - a greedy repetition of a character class, at least lo and at   *)
(*          most hi times (hi = -1: unbounded); cap > 0 makes it group cap *)
(*   bol  - ^ under re.MULTILINE                                           *)
(*   eol  - $ under re.MULTILINE                                           *)
(* Matching backtracks in the order Python's re does: alternatives left to *)
(* right, repetitions longest first.  A match records where it starts, the *)
(* position after its end, and the span of every group.                    *)
(***************************************************************************)

Lit(alts) ==
  [k |-> "lit", alts |-> alts, cls |-> "", lo |-> 0, hi |-> 0, cap |-> 0]

Rep(cls, lo, hi, cap) ==
  [k |-> "rep", alts |-> <<>>, cls |-> cls, lo |-> lo, hi |-> hi, cap |-> cap]

Bol == [k |-> "bol", alts |-> <<>>, cls |-> "", lo |-> 0, hi |-> 0, cap |-> 0]

Eol == [k |-> "eol", alts |-> <<>>, cls |-> "", lo |-> 0, hi |-> 0, cap |-> 0]

InClass(c, cls) ==
  CASE cls = "space"      -> c \in SpaceChars            \* \s
    [] cls = "digit"      -> c \in DigitChars            \* \d
    [] cls = "digitdot"   -> c \in DigitChars \/ c = "." \* [\d.]
    [] cls = "notparen"   -> c # ")"                     \* [^)]
    [] cls = "notquote"   -> c \notin QuoteChars         \* [^"\']
    [] cls = "quote"      -> c \in QuoteChars            \* ["\']
    [] cls = "notbracket" -> c # "]"                     \* [^\]]
    [] cls = "dot"        -> c # NL                      \* .
    [] cls = "hash"       -> c = "#"                     \* #
    [] cls = "notname"    ->                             \* [^a-z0-9_]
         ~(c \in LowerChars \/ c \in DigitChars \/ c = "_")
    [] cls = "underscore" -> c = "_"                     \* _

\* the least element of a non-empty set of integers
Least(S) == CHOOSE j \in S : \A l \in S : j <= l

\* the first position from i on that does not hold a character of the class
RunEnd(s, i, cls) ==
  Least({j \in i..Len(s) : ~InClass(s[j], cls)} \cup {Len(s) + 1})

\* number of consecutive characters of the class from position i, at most hi
RunLen(s, i, cls, hi) ==
  IF hi >= 0 THEN Min(hi, RunEnd(s, i, cls) - i) ELSE RunEnd(s, i, cls) - i

NoMatch == [ok |-> FALSE, start |-> 0, end |-> 0, groups |-> <<>>]

RECURSIVE MatchAtoms(_, _, _, _, _)
RECURSIVE TryAlts(_, _, _, _, _, _)

\* the groups with the span of atom k added, when it is a group
WithGroup(pat, k, groups, i, n) ==
  IF pat[k].cap > 0 THEN Append(groups, <<pat[k].cap, i, i + n - 1>>)
  ELSE groups

\* of the <<length, match>> pairs that matched, the match of greatest length
Longest(found) ==
  IF found = {} THEN NoMatch
  ELSE (CHOOSE p \in found : \A q \in found : q[1] <= p[1])[2]

\* of the <<position, match>> pairs that matched, the match of least position
Leftmost(found) ==
  IF found = {} THEN NoMatch
  ELSE (CHOOSE p \in found : \A q \in found : p[1] <= q[1])[2]

\* match atoms k.. of pat against s from position i
MatchAtoms(pat, k, s, i, groups) ==
  IF k > Len(pat)
  THEN [ok |-> TRUE, start |-> 0, end |-> i, groups |-> groups]
  ELSE CASE pat[k].k = "lit" -> TryAlts(pat, k, s, i, groups, 1)
         [] pat[k].k = "rep" ->
              Longest({p \in {<<n, MatchAtoms(pat, k + 1, s, i + n,
                                               WithGroup(pat, k, groups, i, n))>> :
                              n \in pat[k].lo..RunLen(s, i, pat[k].cls, pat[k].hi)} :
                       p[2].ok})
         [] pat[k].k = "bol" ->
              IF i = 1 \/ s[i - 1] = NL
              THEN MatchAtoms(pat, k + 1, s, i, groups) ELSE NoMatch
         [] pat[k].k = "eol" ->
              IF i = Len(s) + 1 \/ s[i] = NL
              THEN MatchAtoms(pat, k + 1, s, i, groups) ELSE NoMatch

\* alternatives n.. of the literal atom k, left to right
TryAlts(pat, k, s, i, groups, n) ==
  IF n > Len(pat[k].alts) THEN NoMatch
  ELSE IF LitAt(s, i, pat[k].alts[n])
       THEN LET m == MatchAtoms(pat, k + 1, s, i + Len(pat[k].alts[n]),
                                groups)
            IN  IF m.ok THEN m ELSE TryAlts(pat, k, s, i, groups, n + 1)
       ELSE TryAlts(pat, k, s, i, groups, n + 1)

\* the span of group n in a match's list of groups
SpanText(s, spans) ==
  IF spans = <<>> THEN <<>> ELSE Slice(s, spans[1][2], spans[1][3])

\* match.group(n) of a match in s
GroupOf(s, m, n) == SpanText(s, SelectSeq(m.groups, LAMBDA g : g[1] = n))

\* the positions from i on where a match can start: where an alternative of
\* a leading literal has its first character, or a line starts after a
\* leading ^; any position otherwise
Starts(pat, s, i) ==
  CASE pat[1].k = "lit" ->
         {j \in i..Len(s) :
            \E n \in 1..Len(pat[1].alts) : pat[1].alts[n][1] = s[j]}
    [] pat[1].k = "bol" ->
         {j \in i..(Len(s) + 1) : j = 1 \/ s[j - 1] = NL}
    [] OTHER -> i..(Len(s) + 1)

\* the leftmost match among the start positions
FirstMatch(pat, s, starts) ==
  Leftmost({p \in {<<i, [MatchAtoms(pat, 1, s, i, <<>>) EXCEPT !.start = i]>> :
                     i \in starts} :
            p[2].ok})

\* the leftmost match of pat in s from position i on
SearchFrom(pat, s, i) == FirstMatch(pat, s, Starts(pat, s, i))

\* re.search(pat, s)
Search(pat, s) == SearchFrom(pat, s, 1)

\* re.finditer(pat, s): the non-overlapping matches, left to right
RECURSIVE FindIterFrom(_, _, _)
FindIterFrom(pat, s, i) ==
  LET m == SearchFrom(pat, s, i)
  IN  IF ~m.ok THEN <<>>
      ELSE <<m>> \o FindIterFrom(pat, s,
                                 IF m.end = m.start THEN m.end + 1 ELSE m.end)

FindIter(pat, s) == FindIterFrom(pat, s, 1)

\* re.sub(pat, repl, s) for a pattern that matches one or more characters
RECURSIVE SubFrom(_, _, _, _)
SubFrom(pat, repl, s, i) ==
  LET m == SearchFrom(pat, s, i)
  IN  IF ~m.ok THEN Slice(s, i, Len(s))
      ELSE Slice(s, i, m.start - 1) \o repl \o SubFrom(pat, repl, s, m.end)

(***************************************************************************)
(* String literals of notebook_parser.py, as character sequences           *)
(***************************************************************************)

Str ==
  [ gr_Textbox |-> <<"g","r",".","T","e","x","t","b","o","x">>,
    gr_Slider |-> <<"g","r",".","S","l","i","d","e","r">>,
    gr_Number |-> <<"g","r",".","N","u","m","b","e","r">>,
    gr_Checkbox |-> <<"g","r",".","C","h","e","c","k","b","o","x">>,
    gr_Dropdown |-> <<"g","r",".","D","r","o","p","d","o","w","n">>,
    gr_Image |-> <<"g","r",".","I","m","a","g","e">>,
    gr_File |-> <<"g","r",".","F","i","l","e">>,
    label |-> <<"l","a","b","e","l">>,
    minimum |-> <<"m","i","n","i","m","u","m">>,
    maximum |-> <<"m","a","x","i","m","u","m">>,
    choices |-> <<"c","h","o","i","c","e","s">>,
    widgets_Text |-> <<"w","i","d","g","e","t","s",".","T","e","x","t">>,
    widgets_ |-> <<"w","i","d","g","e","t","s",".">>,
    Int |-> <<"I","n","t">>,
    Float |-> <<"F","l","o","a","t">>,
    Slider |-> <<"S","l","i","d","e","r">>,
    widgets_Dropdown |-> <<"w","i","d","g","e","t","s",".","D","r","o","p",
        "d","o","w","n">>,
    min |-> <<"m","i","n">>,
    max |-> <<"m","a","x">>,
    description |-> <<"d","e","s","c","r","i","p","t","i","o","n">>,
    options |-> <<"o","p","t","i","o","n","s">>,
    width |-> <<"w","i","d","t","h">>,
    w |-> <<"w">>,
    height |-> <<"h","e","i","g","h","t">>,
    h |-> <<"h">>,
    steps |-> <<"s","t","e","p","s">>,
    num_inference_steps |-> <<"n","u","m","_","i","n","f","e","r","e","n",
        "c","e","_","s","t","e","p","s">>,
    inference_steps |-> <<"i","n","f","e","r","e","n","c","e","_","s","t",
        "e","p","s">>,
    cfg_scale |-> <<"c","f","g","_","s","c","a","l","e">>,
    guidance_scale |-> <<"g","u","i","d","a","n","c","e","_","s","c","a",
        "l","e">>,
    cfg |-> <<"c","f","g">>,
    strength |-> <<"s","t","r","e","n","g","t","h">>,
    prompt |-> <<"p","r","o","m","p","t">>,
    negative_prompt |-> <<"n","e","g","a","t","i","v","e","_","p","r","o",
        "m","p","t">>,
    inference |-> <<"i","n","f","e","r","e","n","c","e">>,
    guidance |-> <<"g","u","i","d","a","n","c","e">>,
    seed |-> <<"s","e","e","d">>,
    img2img |-> <<"i","m","g","2","i","m","g">>,
    init_image |-> <<"i","n","i","t","_","i","m","a","g","e">>,
    input_image |-> <<"i","n","p","u","t","_","i","m","a","g","e">>,
    save_call |-> <<".","s","a","v","e","(">>,
    Image_dot |-> <<"I","m","a","g","e",".">>,
    PIL |-> <<"P","I","L">>,
    cv2 |-> <<"c","v","2">>,
    plt_show |-> <<"p","l","t",".","s","h","o","w">>,
    display_call |-> <<"d","i","s","p","l","a","y","(">>,
    audio |-> <<"a","u","d","i","o">>,
    wav |-> <<"w","a","v">>,
    mp3 |-> <<"m","p","3">>,
    tts |-> <<"t","t","s">>,
    speech |-> <<"s","p","e","e","c","h">>,
    video |-> <<"v","i","d","e","o">>,
    mp4 |-> <<"m","p","4">>,
    avi |-> <<"a","v","i">>,
    animate |-> <<"a","n","i","m","a","t","e">>,
    StableDiffusion |-> <<"S","t","a","b","l","e","D","i","f","f","u","s",
        "i","o","n">>,
    stable_diffusion |-> <<"s","t","a","b","l","e","-","d","i","f","f","u",
        "s","i","o","n">>,
    runwayml |-> <<"r","u","n","w","a","y","m","l">>,
    CompVis |-> <<"C","o","m","p","V","i","s">>,
    ControlNet |-> <<"C","o","n","t","r","o","l","N","e","t">>,
    controlnet |-> <<"c","o","n","t","r","o","l","n","e","t">>,
    SDXL |-> <<"S","D","X","L">>,
    sdxl |-> <<"s","d","x","l">>,
    stable_diffusion_xl |-> <<"s","t","a","b","l","e","-","d","i","f","f",
        "u","s","i","o","n","-","x","l">>,
    FLUX |-> <<"F","L","U","X">>,
    flux |-> <<"f","l","u","x">>,
    gradio |-> <<"g","r","a","d","i","o">>,
    import_gr |-> <<"i","m","p","o","r","t"," ","g","r">>,
    flask |-> <<"f","l","a","s","k">>,
    fastapi |-> <<"f","a","s","t","a","p","i">>,
    diffusers |-> <<"d","i","f","f","u","s","e","r","s">>,
    transformers |-> <<"t","r","a","n","s","f","o","r","m","e","r","s">>,
    ipynb |-> <<".","i","p","y","n","b">>,
    stable_diffusion_type |-> <<"s","t","a","b","l","e","_","d","i","f","f",
        "u","s","i","o","n">>,
    unknown |-> <<"u","n","k","n","o","w","n">>,
    Prompt |-> <<"P","r","o","m","p","t">>,
    Negative_Prompt |-> <<"N","e","g","a","t","i","v","e"," ","P","r","o",
        "m","p","t">>,
    Breite |-> <<"B","r","e","i","t","e">>,
    Hoehe |-> <<"H","ö","h","e">>,
    Schritte |-> <<"S","c","h","r","i","t","t","e">>,
    CFG_Scale |-> <<"C","F","G"," ","S","c","a","l","e">>,
    Seed |-> <<"S","e","e","d">>,
    Staerke |-> <<"S","t","ä","r","k","e">>,
    Eingabebild |-> <<"E","i","n","g","a","b","e","b","i","l","d">> ]


(***************************************************************************)
(* NotebookParser.PATTERNS                                                 *)
(***************************************************************************)

W(word) == Lit(<<word>>)

Star(cls) == Rep(cls, 0, -1, 0)

One(cls) == Rep(cls, 1, 1, 0)

Group(cls, n) == Rep(cls, 1, -1, n)

\* name\s*\(
Call(name) == <<W(name), Star("space"), W(<<"(">>)>>

\* [^)]*word\s*=\s*
Kwarg(word) ==
  <<Star("notparen"), W(word), Star("space"), W(<<"=">>), Star("space")>>

\* ["\']([^"\']+)["\']   as group n
Quoted(n) == <<One("quote"), Group("notquote", n), One("quote")>>

\* (?:a|b)\s*=\s*
Assign(alts) == <<Lit(alts), Star("space"), W(<<"=">>), Star("space")>>

PATTERNS ==
  [ gradio_textbox  |-> Call(Str.gr_Textbox) \o Kwarg(Str.label) \o Quoted(1),
    gradio_slider   |-> Call(Str.gr_Slider)
                        \o Kwarg(Str.minimum) \o <<Group("digit", 1)>>
                        \o Kwarg(Str.maximum) \o <<Group("digit", 2)>>
                        \o Kwarg(Str.label) \o Quoted(3),
    gradio_number   |-> Call(Str.gr_Number) \o Kwarg(Str.label) \o Quoted(1),
    gradio_checkbox |-> Call(Str.gr_Checkbox) \o Kwarg(Str.label) \o Quoted(1),
    gradio_dropdown |-> Call(Str.gr_Dropdown)
                        \o Kwarg(Str.choices)
                        \o <<W(<<"[">>), Group("notbracket", 1), W(<<"]">>)>>
                        \o Kwarg(Str.label) \o Quoted(2),
    gradio_image    |-> Call(Str.gr_Image) \o Kwarg(Str.label) \o Quoted(1),
    gradio_file     |-> Call(Str.gr_File) \o Kwarg(Str.label) \o Quoted(1),
    width_var       |-> Assign(<<Str.width, Str.w>>) \o <<Group("digit", 1)>>,
    height_var      |-> Assign(<<Str.height, Str.h>>) \o <<Group("digit", 1)>>,
    steps_var       |-> Assign(<<Str.steps, Str.num_inference_steps,
                                 Str.inference_steps>>)
                        \o <<Group("digit", 1)>>,
    cfg_var         |-> Assign(<<Str.cfg_scale, Str.guidance_scale, Str.cfg>>)
                        \o <<Group("digitdot", 1)>>,
    strength_var    |-> Assign(<<Str.strength>>) \o <<Group("digitdot", 1)>>,
    widget_text     |-> Call(Str.widgets_Text) \o Kwarg(Str.description)
                        \o Quoted(1),
    widget_slider   |-> <<W(Str.widgets_), Lit(<<Str.Int, Str.Float>>)>>
                        \o Call(Str.Slider)
                        \o Kwarg(Str.min) \o <<Group("digit", 1)>>
                        \o Kwarg(Str.max) \o <<Group("digit", 2)>>
                        \o Kwarg(Str.description) \o Quoted(3),
    widget_dropdown |-> Call(Str.widgets_Dropdown)
                        \o Kwarg(Str.options)
                        \o <<W(<<"[">>), Group("notbracket", 1), W(<<"]">>)>>
                        \o Kwarg(Str.description) \o Quoted(2),
    stable_diffusion |-> <<Lit(<<Str.StableDiffusion, Str.stable_diffusion,
                                 Str.runwayml, Str.CompVis>>)>>,
    controlnet      |-> <<Lit(<<Str.ControlNet, Str.controlnet>>)>>,
    sdxl            |-> <<Lit(<<Str.SDXL, Str.sdxl, Str.stable_diffusion_xl>>)>>,
    flux            |-> <<Lit(<<Str.FLUX, Str.flux>>)>> ]

\* word in s
Contains(s, word) ==
  \E i \in 1..(Len(s) - Len(word) + 1) : SubSeq(s, i, i + Len(word) - 1) = word

\* any of the lower-cased alternatives in the lower-cased text
ContainsAny(s_lower, alts) ==
  \E n \in 1..Len(alts) : Contains(s_lower, Lower(alts[n]))

\* re.search(r'a|b|c', code, re.IGNORECASE) is not None
HasKeyword(code, alts) == ContainsAny(Lower(code), alts)

(***************************************************************************)
(* Python values: None, int, float (a decimal n/d), str                    *)
(***************************************************************************)

None == [ty |-> "none", n |-> 0, d |-> 1, s |-> <<>>]

IntV(n) == [ty |-> "int", n |-> n, d |-> 1, s |-> <<>>]

FloatV(n, d) == [ty |-> "float", n |-> n, d |-> d, s |-> <<>>]

StrV(s) == [ty |-> "str", n |-> 0, d |-> 1, s |-> s]

DigitVal ==
  [c \in DigitChars |->
     CASE c = "0" -> 0 [] c = "1" -> 1 [] c = "2" -> 2 [] c = "3" -> 3
       [] c = "4" -> 4 [] c = "5" -> 5 [] c = "6" -> 6 [] c = "7" -> 7
       [] c = "8" -> 8 [] c = "9" -> 9]

\* the number written by a string of decimal digits
RECURSIVE DigitsValue(_, _)
DigitsValue(ds, acc) ==
  IF ds = <<>> THEN acc
  ELSE DigitsValue(Tail(ds), 10 * acc + DigitVal[Head(ds)])

RECURSIVE Pow10(_)
Pow10(k) == IF k = 0 THEN 1 ELSE 10 * Pow10(k - 1)

\* int(text) for a text matched by \d+
ParseInt(text) == IntV(DigitsValue(text, 0))

\* float(text) for a text matched by \d+ or [\d.]+ : ValueError unless the
\* text holds at most one '.' and at least one digit
ParseFloat(text) ==
  LET dots   == SelectSeq(text, LAMBDA c : c = ".")
      digits == SelectSeq(text, LAMBDA c : c \in DigitChars)
      point  == CHOOSE i \in 1..Len(text) : text[i] = "."
  IN  IF Len(dots) > 1 \/ digits = <<>>
      THEN [raised |-> TRUE, value |-> None]
      ELSE [raised |-> FALSE,
            value  |-> FloatV(DigitsValue(digits, 0),
                              IF dots = <<>> THEN 1
                              ELSE Pow10(Len(text) - point))]

(***************************************************************************)
(* Schema model: ParameterType, OutputType, Parameter, Output              *)
(***************************************************************************)

ParameterType ==
  [ TEXT |-> "text", TEXTAREA |-> "textarea", NUMBER |-> "number",
    SLIDER |-> "slider", CHECKBOX |-> "checkbox", DROPDOWN |-> "dropdown",
    FILE |-> "file", IMAGE |-> "image", COLOR |-> "color" ]

OutputType ==
  [ IMAGE |-> "image", TEXT |-> "text", FILE |-> "file", AUDIO |-> "audio",
    VIDEO |-> "video" ]

\* the dataclass with its field defaults
Parameter(name, param_type, label) ==
  [ name |-> name, param_type |-> param_type, label |-> label,
    default_value |-> None, min_value |-> None, max_value |-> None,
    step |-> None, options |-> <<>>, description |-> "", required |-> TRUE ]

Output(name, output_type, description) ==
  [ name |-> name, output_type |-> output_type, description |-> description ]


(***************************************************************************)
(* NotebookParser                                                          *)
(***************************************************************************)

\* ''.join(c.get('source', [])) if isinstance(c.get('source'), list)
\* else c.get('source', '')
SourceText(c) ==
  CASE c.source.form = "list"   -> Join(c.source.parts)
    [] c.source.form = "str"    -> c.source.parts[1]
    [] c.source.form = "absent" -> <<>>

\* the two ends stripped of '_' before the substitutions, not after them
StripBeforeSubstitution(name) ==
  SubFrom(<<Rep("underscore", 1, -1, 0)>>, <<"_">>,
          SubFrom(<<One("notname")>>, <<"_">>,
                  Strip(Lower(name), {"_"}), 1), 1)

\* NotebookParser._sanitize_name
sanitize_name(name) ==
  Strip(SubFrom(<<Rep("underscore", 1, -1, 0)>>, <<"_">>,
                SubFrom(<<One("notname")>>, <<"_">>, Lower(name), 1), 1),
        {"_"})

\* filename.replace('.ipynb', '').replace('_', ' ').replace('-', ' ').title()
FilenameTitle(filename) ==
  Title(Replace(Replace(Replace(filename, Str.ipynb, <<>>, 1),
                        <<"_">>, <<" ">>, 1),
                <<"-">>, <<" ">>, 1))

\* r'^#\s+(.+)$' under re.MULTILINE
H1Pattern ==
  <<Bol, W(<<"#">>), Rep("space", 1, -1, 0), Group("dot", 1), Eol>>

\* r'^#+.*$' under re.MULTILINE
HeadingPattern == <<Bol, Rep("hash", 1, -1, 0), Star("dot"), Eol>>

\* "if h1_match: title = h1_match.group(1).strip()"
TitleAfter(source, h1_match, title) ==
  IF h1_match.ok THEN Strip(GroupOf(source, h1_match, 1), SpaceChars)
  ELSE title

\* re.sub(r'^#+.*$', '', source, flags=re.MULTILINE).strip()
ProseOf(source) == Strip(SubFrom(HeadingPattern, <<>>, source, 1), SpaceChars)

RECURSIVE MetadataLoop(_, _, _, _)

\* the loop body with the description taken from every cell that has prose
LaterProseReplaces(markdown_cells, i, title, description, text) ==
  MetadataLoop(markdown_cells, i + 1, title,
               IF text # <<>> THEN Slice(text, 1, Min(500, Len(text)))
               ELSE description)

\* one pass of the loop body of _extract_metadata on cell i: the title it
\* leaves, then the description test with its break
MetadataBody(markdown_cells, i, title, description, text) ==
  IF description = <<>> /\ text # <<>>
  THEN [title |-> title, description |-> Slice(text, 1, Min(500, Len(text)))]
  ELSE MetadataLoop(markdown_cells, i + 1, title, description)

\* the for loop of _extract_metadata from cell i on
MetadataLoop(markdown_cells, i, title, description) ==
  IF i > Len(markdown_cells)
  THEN [title |-> title, description |-> description]
  ELSE MetadataBody(markdown_cells, i,
                    TitleAfter(SourceText(markdown_cells[i]),
                               Search(H1Pattern, SourceText(markdown_cells[i])),
                               title),
                    description,
                    ProseOf(SourceText(markdown_cells[i])))

\* NotebookParser._extract_metadata
extract_metadata(markdown_cells, filename) ==
  MetadataLoop(markdown_cells, 1, FilenameTitle(filename), <<>>)

\* a checklist entry added on keyword presence alone
KeywordParam(present, param) == IF present THEN <<param>> ELSE <<>>

\* the entry with the fallback whatever the code assigns
FallbackIntParam(code, match, present, param, fallback) ==
  IF match.ok \/ present
  THEN <<[param EXCEPT !.default_value = fallback]>>
  ELSE <<>>

\* a checklist entry whose default is int(match.group(1)) if the assignment
\* pattern matched, else the fallback
IntParam(code, match, present, param, fallback) ==
  IF match.ok \/ present
  THEN <<[param EXCEPT !.default_value =
                         IF match.ok THEN ParseInt(GroupOf(code, match, 1))
                         ELSE fallback]>>
  ELSE <<>>

\* "default_value=float(match.group(1))": the entry, or the ValueError
FloatDefault(param, parsed) ==
  IF parsed.raised THEN [raised |-> TRUE, params |-> <<>>]
  ELSE [raised |-> FALSE,
        params |-> <<[param EXCEPT !.default_value = parsed.value]>>]

\* the same with float(match.group(1)), which may raise ValueError
FloatParam(code, match, present, param, fallback) ==
  IF match.ok THEN FloatDefault(param, ParseFloat(GroupOf(code, match, 1)))
  ELSE IF present
       THEN [raised |-> FALSE,
             params |-> <<[param EXCEPT !.default_value = fallback]>>]
       ELSE [raised |-> FALSE, params |-> <<>>]

\* the list _detect_standard_image_params returns from its nine blocks, or
\* the ValueError that leaves it
StandardParams(prompt, negative_prompt, width, height, steps, cfg, seed, strength, input_image) ==
  IF cfg.raised \/ strength.raised
  THEN [raised |-> TRUE, params |-> <<>>]
  ELSE [raised |-> FALSE,
        params |-> prompt \o negative_prompt \o width \o height \o steps
                   \o cfg.params \o seed \o strength.params \o input_image]

\* NotebookParser._detect_standard_image_params
detect_standard_image_params(code) ==
  StandardParams(
    KeywordParam(HasKeyword(code, <<Str.prompt>>),
      [Parameter(Str.prompt, ParameterType.TEXTAREA, Str.Prompt)
         EXCEPT !.default_value = StrV(<<>>),
                !.description = "Beschreibung des gewünschten Bildes"]),
    KeywordParam(HasKeyword(code, <<Str.negative_prompt>>),
      [Parameter(Str.negative_prompt, ParameterType.TEXTAREA,
                 Str.Negative_Prompt)
         EXCEPT !.default_value = StrV(<<>>),
                !.description = "Was NICHT im Bild erscheinen soll",
                !.required = FALSE]),
    IntParam(code, Search(PATTERNS.width_var, code),
      HasKeyword(code, <<Str.width>>),
      [Parameter(Str.width, ParameterType.SLIDER, Str.Breite)
         EXCEPT !.min_value = IntV(256), !.max_value = IntV(1024),
                !.step = IntV(64), !.description = "Bildbreite in Pixeln"],
      IntV(512)),
    IntParam(code, Search(PATTERNS.height_var, code),
      HasKeyword(code, <<Str.height>>),
      [Parameter(Str.height, ParameterType.SLIDER, Str.Hoehe)
         EXCEPT !.min_value = IntV(256), !.max_value = IntV(1024),
                !.step = IntV(64), !.description = "Bildhöhe in Pixeln"],
      IntV(512)),
    IntParam(code, Search(PATTERNS.steps_var, code),
      HasKeyword(code, <<Str.steps, Str.inference>>),
      [Parameter(Str.steps, ParameterType.SLIDER, Str.Schritte)
         EXCEPT !.min_value = IntV(10), !.max_value = IntV(150),
                !.step = IntV(1),
                !.description = "Anzahl der Inferenz-Schritte"],
      IntV(50)),
    FloatParam(code, Search(PATTERNS.cfg_var, code),
      HasKeyword(code, <<Str.cfg, Str.guidance>>),
      [Parameter(Str.cfg_scale, ParameterType.SLIDER, Str.CFG_Scale)
         EXCEPT !.min_value = FloatV(10, 10), !.max_value = FloatV(200, 10),
                !.step = FloatV(5, 10),
                !.description = "Wie stark der Prompt befolgt wird"],
      FloatV(75, 10)),
    KeywordParam(HasKeyword(code, <<Str.seed>>),
      [Parameter(Str.seed, ParameterType.NUMBER, Str.Seed)
         EXCEPT !.default_value = IntV(-1),
                !.description =
                  "Zufallszahl für Reproduzierbarkeit (-1 = zufällig)"]),
    FloatParam(code, Search(PATTERNS.strength_var, code),
      HasKeyword(code, <<Str.img2img, Str.strength>>),
      [Parameter(Str.strength, ParameterType.SLIDER, Str.Staerke)
         EXCEPT !.min_value = FloatV(0, 10), !.max_value = FloatV(10, 10),
                !.step = FloatV(5, 100),
                !.description = "Stärke der Bildbearbeitung"],
      FloatV(75, 100)),
    KeywordParam(
      HasKeyword(code, <<Str.img2img, Str.init_image, Str.input_image>>),
      [Parameter(Str.input_image, ParameterType.IMAGE, Str.Eingabebild)
         EXCEPT !.description = "Bild für img2img Bearbeitung",
                !.required = FALSE]))

\* one "for match in re.finditer(...)" loop appending a Parameter named by
\* the sanitized label in group g
LabelledParams(code, matches, g, param_type) ==
  [i \in 1..Len(matches) |->
     Parameter(sanitize_name(GroupOf(code, matches[i], g)), param_type,
               GroupOf(code, matches[i], g))]

\* the slider loops appending the Parameter as a text field
SlidersAsText(code, matches) ==
  [i \in 1..Len(matches) |->
     [Parameter(sanitize_name(GroupOf(code, matches[i], 3)),
                ParameterType.TEXT, GroupOf(code, matches[i], 3))
        EXCEPT !.min_value = ParseFloat(GroupOf(code, matches[i], 1)).value,
               !.max_value = ParseFloat(GroupOf(code, matches[i], 2)).value]]

\* the slider loops: min and max are float(group 1), float(group 2)
SliderParams(code, matches) ==
  [i \in 1..Len(matches) |->
     [Parameter(sanitize_name(GroupOf(code, matches[i], 3)),
                ParameterType.SLIDER, GroupOf(code, matches[i], 3))
        EXCEPT !.min_value = ParseFloat(GroupOf(code, matches[i], 1)).value,
               !.max_value = ParseFloat(GroupOf(code, matches[i], 2)).value]]

\* NotebookParser._detect_gradio_params
detect_gradio_params(code) ==
  LabelledParams(code, FindIter(PATTERNS.gradio_textbox, code), 1,
                 ParameterType.TEXT)
  \o SliderParams(code, FindIter(PATTERNS.gradio_slider, code))
  \o LabelledParams(code, FindIter(PATTERNS.gradio_image, code), 1,
                    ParameterType.IMAGE)

\* NotebookParser._detect_widget_params
detect_widget_params(code) ==
  LabelledParams(code, FindIter(PATTERNS.widget_text, code), 1,
                 ParameterType.TEXT)
  \o SliderParams(code, FindIter(PATTERNS.widget_slider, code))

\* NotebookParser._get_default_image_params
get_default_image_params ==
  << [Parameter(Str.prompt, ParameterType.TEXTAREA, Str.Prompt)
        EXCEPT !.default_value = StrV(<<>>),
               !.description = "Beschreibung des gewünschten Bildes"],
     [Parameter(Str.negative_prompt, ParameterType.TEXTAREA,
                Str.Negative_Prompt)
        EXCEPT !.default_value = StrV(<<>>),
               !.description = "Was NICHT im Bild erscheinen soll",
               !.required = FALSE],
     [Parameter(Str.width, ParameterType.SLIDER, Str.Breite)
        EXCEPT !.default_value = IntV(512), !.min_value = IntV(256),
               !.max_value = IntV(1024), !.step = IntV(64)],
     [Parameter(Str.height, ParameterType.SLIDER, Str.Hoehe)
        EXCEPT !.default_value = IntV(512), !.min_value = IntV(256),
               !.max_value = IntV(1024), !.step = IntV(64)],
     [Parameter(Str.steps, ParameterType.SLIDER, Str.Schritte)
        EXCEPT !.default_value = IntV(50), !.min_value = IntV(10),
               !.max_value = IntV(150), !.step = IntV(1)] >>

\* the loop without its membership test
AppendAll(acc, params) ==
  [parameters  |-> acc.parameters \o params,
   found_names |-> acc.found_names \cup {params[i].name : i \in 1..Len(params)}]

\* "for param in params: if param.name not in found_names:
\*      parameters.append(param); found_names.add(param.name)"
RECURSIVE AddUnseen(_, _)
AddUnseen(acc, params) ==
  IF params = <<>> THEN acc
  ELSE IF Head(params).name \notin acc.found_names
       THEN AddUnseen(
              [parameters  |-> Append(acc.parameters, Head(params)),
               found_names |-> acc.found_names \cup {Head(params).name}],
              Tail(params))
       ELSE AddUnseen(acc, Tail(params))

\* the fallback left out
KeepParameters(parameters) == parameters

\* "if not parameters: parameters = self._get_default_image_params()"
OrDefaultParams(parameters) ==
  IF parameters = <<>> THEN get_default_image_params ELSE parameters

\* the three accumulation loops of _detect_parameters and its fallback
AccumulateParams(standard_params, gradio_params, widget_params) ==
  OrDefaultParams(
    AddUnseen(AddUnseen(AddUnseen([parameters |-> <<>>, found_names |-> {}],
                                  standard_params),
                        gradio_params),
              widget_params).parameters)

\* the result of _detect_parameters given what its first call did
ParametersAfter(standard, gradio_params, widget_params) ==
  IF standard.raised THEN [raised |-> TRUE, parameters |-> <<>>]
  ELSE [raised |-> FALSE,
        parameters |-> AccumulateParams(standard.params, gradio_params,
                                        widget_params)]

\* NotebookParser._detect_parameters
detect_parameters(code) ==
  ParametersAfter(detect_standard_image_params(code),
                  detect_gradio_params(code), detect_widget_params(code))

\* one keyword family of _detect_outputs
OutputIf(present, output) == IF present THEN <<output>> ELSE <<>>

\* the default output left out
KeepOutputs(outputs) == outputs

\* "if not outputs: outputs.append(Output(name='generated_image', ...))"
OrDefaultOutput(outputs) ==
  IF outputs = <<>>
  THEN <<Output("generated_image", OutputType.IMAGE, "Generiertes Bild")>>
  ELSE outputs

\* NotebookParser._detect_outputs
detect_outputs(code) ==
  OrDefaultOutput(
    OutputIf(HasKeyword(code, <<Str.save_call, Str.Image_dot, Str.PIL,
                                Str.cv2, Str.plt_show, Str.display_call>>),
             Output("generated_image", OutputType.IMAGE, "Generiertes Bild"))
    \o OutputIf(HasKeyword(code, <<Str.audio, Str.wav, Str.mp3, Str.tts,
                                   Str.speech>>),
                Output("generated_audio", OutputType.AUDIO,
                       "Generiertes Audio"))
    \o OutputIf(HasKeyword(code, <<Str.video, Str.mp4, Str.avi,
                                   Str.animate>>),
                Output("generated_video", OutputType.VIDEO,
                       "Generiertes Video")))

\* the ladder with the generic Stable Diffusion test ahead of the specific
\* families
GenericFamilyFirst(code) ==
  IF HasKeyword(code, PATTERNS.stable_diffusion[1].alts)
       THEN Str.stable_diffusion_type
  ELSE IF HasKeyword(code, PATTERNS.flux[1].alts) THEN Str.flux
  ELSE IF HasKeyword(code, PATTERNS.sdxl[1].alts) THEN Str.sdxl
  ELSE IF HasKeyword(code, PATTERNS.controlnet[1].alts) THEN Str.controlnet
  ELSE IF Contains(Lower(code), Str.diffusers) THEN Str.diffusers
  ELSE IF Contains(Lower(code), Str.transformers) THEN Str.transformers
  ELSE Str.unknown

\* NotebookParser._detect_model_type
detect_model_type(code) ==
  IF HasKeyword(code, PATTERNS.flux[1].alts) THEN Str.flux
  ELSE IF HasKeyword(code, PATTERNS.sdxl[1].alts) THEN Str.sdxl
  ELSE IF HasKeyword(code, PATTERNS.controlnet[1].alts) THEN Str.controlnet
  ELSE IF HasKeyword(code, PATTERNS.stable_diffusion[1].alts)
       THEN Str.stable_diffusion_type
  ELSE IF Contains(Lower(code), Str.diffusers) THEN Str.diffusers
  ELSE IF Contains(Lower(code), Str.transformers) THEN Str.transformers
  ELSE Str.unknown

\* [c for c in cells if c.get('cell_type') == cell_type]
CellsOfType(cells, cell_type) ==
  SelectSeq(cells, LAMBDA c : c.cell_type = cell_type)

\* the source texts of the cells, in order
SourceTexts(cells) == [i \in 1..Len(cells) |-> SourceText(cells[i])]

\* '\n'.join of the source texts of the code cells
AllCode(cells) == JoinWith(<<NL>>, SourceTexts(CellsOfType(cells, "code")))

\* notebook.get('cells', [])
CellsOf(notebook) == IF notebook.has_cells THEN notebook.cells ELSE <<>>

\* the digits of a natural number
RECURSIVE DigitsOf(_)
DigitsOf(n) ==
  IF n < 10 THEN <<CHOOSE c \in DigitChars : DigitVal[c] = n>>
  ELSE Append(DigitsOf(n \div 10), CHOOSE c \in DigitChars : DigitVal[c] = n % 10)

\* the digits after the point of r/d, r < d, d a power of ten
RECURSIVE FractionDigits(_, _)
FractionDigits(r, d) ==
  IF r = 0 THEN <<>>
  ELSE <<CHOOSE c \in DigitChars : DigitVal[c] = (r * 10) \div d>>
         \o FractionDigits((r * 10) % d, d)

\* "{value}" in an f-string: str() of None, an int or a float (in the range
\* where repr uses no exponent)
FormatValue(value) ==
  CASE value.ty = "none"  -> <<"N","o","n","e">>
    [] value.ty = "int"   ->
         IF value.n < 0 THEN <<"-">> \o DigitsOf(0 - value.n) ELSE DigitsOf(value.n)
    [] value.ty = "float" ->
         DigitsOf(value.n \div value.d) \o <<".">>
           \o (IF value.n % value.d = 0 THEN <<"0">>
               ELSE FractionDigits(value.n % value.d, value.d))
    [] value.ty = "str"   -> value.s

\* default = f"'{param.default_value}'" if isinstance(param.default_value, str)
\*           else param.default_value
FallbackText(default_value) ==
  IF default_value.ty = "str"
  THEN <<"'">> \o FormatValue(default_value) \o <<"'">>
  ELSE FormatValue(default_value)

\* f"        {param.name} = data.get('{param.name}', {default})\n"
ExtractionStatement(param) ==
  <<" "," "," "," "," "," "," "," ">> \o param.name
    \o <<" ","="," ","d","a","t","a",".","g","e","t","(","'">> \o param.name
    \o <<"'",","," ">> \o FallbackText(param.default_value) \o <<")","\n">>

\* the statement of the first parameter for every parameter
FirstStatementRepeated(parameters) ==
  Join([i \in 1..Len(parameters) |-> ExtractionStatement(parameters[1])])

\* "for param in parameters: ... code += ..."
ExtractionStatements(parameters) ==
  Join([i \in 1..Len(parameters) |-> ExtractionStatement(parameters[i])])

\* the text of _generate_api_code up to the statements
ApiCodeHead ==
    <<"\n","#"," ","=","=","="," ","A","U","T","O","-","G","E","N","E","R",
      "I","E","R","T","E","R"," ","A","P","I","-","C","O","D","E"," ","=",
      "=","=","\n","#"," ","F","ü","g","e","n"," ","S","i","e"," ","d","i",
      "e","s","e","n"," ","C","o","d","e"," ","z","u"," ","I","h","r","e",
      "m"," ","C","o","l","a","b","-","N","o","t","e","b","o","o","k"," ",
      "h","i","n","z","u","\n","\n","f","r","o","m"," ","f","l","a","s","k",
      " ","i","m","p","o","r","t"," ","F","l","a","s","k",","," ","r","e",
      "q","u","e","s","t",","," ","j","s","o","n","i","f","y","\n","f","r",
      "o","m"," ","f","l","a","s","k","_","c","o","r","s"," ","i","m","p",
      "o","r","t"," ","C","O","R","S","\n","f","r","o","m"," ","p","y","n",
      "g","r","o","k"," ","i","m","p","o","r","t"," ","n","g","r","o","k",
      "\n","i","m","p","o","r","t"," ","b","a","s","e","6","4","\n","i","m",
      "p","o","r","t"," ","i","o","\n","\n","a","p","p"," ","="," ","F","l",
      "a","s","k","(","_","_","n","a","m","e","_","_",")","\n","C","O","R",
      "S","(","a","p","p",")","\n","\n","@","a","p","p",".","r","o","u","t",
      "e","(","'","/","h","e","a","l","t","h","'",","," ","m","e","t","h",
      "o","d","s","=","[","'","G","E","T","'","]",")","\n","d","e","f"," ",
      "h","e","a","l","t","h","(",")",":","\n"," "," "," "," ","r","e","t",
      "u","r","n"," ","j","s","o","n","i","f","y","(","{","'","s","t","a",
      "t","u","s","'",":"," ","'","o","n","l","i","n","e","'","}",")","\n",
      "\n","@","a","p","p",".","r","o","u","t","e","(","'","/","g","e","n",
      "e","r","a","t","e","'",","," ","m","e","t","h","o","d","s","=","[",
      "'","P","O","S","T","'","]",")","\n","d","e","f"," ","g","e","n","e",
      "r","a","t","e","(",")",":","\n"," "," "," "," ","t","r","y",":","\n",
      " "," "," "," "," "," "," "," ","d","a","t","a"," ","="," ","r","e",
      "q","u","e","s","t",".","j","s","o","n","\n"," "," "," "," "," "," ",
      " "," ","\n"," "," "," "," "," "," "," "," ","#"," ","P","a","r","a",
      "m","e","t","e","r"," ","e","x","t","r","a","h","i","e","r","e","n",
      "\n">>

\* the text of _generate_api_code after the statements; the character
\* U+1F310 of the print statement is written "U+1F310"
ApiCodeTail ==
    <<"\n"," "," "," "," "," "," "," "," ","\n"," "," "," "," "," "," "," ",
      " ","#"," ","=","=","="," ","H","I","E","R"," ","I","H","R","E"," ",
      "G","E","N","E","R","I","E","R","U","N","G","S","-","L","O","G","I",
      "K"," ","E","I","N","F","Ü","G","E","N"," ","=","=","=","\n"," "," ",
      " "," "," "," "," "," ","#"," ","r","e","s","u","l","t","_","i","m",
      "a","g","e"," ","="," ","y","o","u","r","_","m","o","d","e","l",".",
      "g","e","n","e","r","a","t","e","(",".",".",".",")","\n"," "," "," ",
      " "," "," "," "," ","\n"," "," "," "," "," "," "," "," ","#"," ","B",
      "i","l","d"," ","z","u"," ","B","a","s","e","6","4"," ","k","o","n",
      "v","e","r","t","i","e","r","e","n","\n"," "," "," "," "," "," "," ",
      " ","b","u","f","f","e","r"," ","="," ","i","o",".","B","y","t","e",
      "s","I","O","(",")","\n"," "," "," "," "," "," "," "," ","r","e","s",
      "u","l","t","_","i","m","a","g","e",".","s","a","v","e","(","b","u",
      "f","f","e","r",","," ","f","o","r","m","a","t","=","'","P","N","G",
      "'",")","\n"," "," "," "," "," "," "," "," ","i","m","a","g","e","_",
      "b","a","s","e","6","4"," ","="," ","b","a","s","e","6","4",".","b",
      "6","4","e","n","c","o","d","e","(","b","u","f","f","e","r",".","g",
      "e","t","v","a","l","u","e","(",")",")",".","d","e","c","o","d","e",
      "(","'","u","t","f","-","8","'",")","\n"," "," "," "," "," "," "," ",
      " ","\n"," "," "," "," "," "," "," "," ","r","e","t","u","r","n"," ",
      "j","s","o","n","i","f","y","(","{","\n"," "," "," "," "," "," "," ",
      " "," "," "," "," ","'","s","u","c","c","e","s","s","'",":"," ","T",
      "r","u","e",",","\n"," "," "," "," "," "," "," "," "," "," "," "," ",
      "'","i","m","a","g","e","'",":"," ","i","m","a","g","e","_","b","a",
      "s","e","6","4","\n"," "," "," "," "," "," "," "," ","}",")","\n"," ",
      " "," "," "," "," "," "," ","\n"," "," "," "," ","e","x","c","e","p",
      "t"," ","E","x","c","e","p","t","i","o","n"," ","a","s"," ","e",":",
      "\n"," "," "," "," "," "," "," "," ","r","e","t","u","r","n"," ","j",
      "s","o","n","i","f","y","(","{","'","s","u","c","c","e","s","s","'",
      ":"," ","F","a","l","s","e",","," ","'","e","r","r","o","r","'",":",
      " ","s","t","r","(","e",")","}",")",","," ","5","0","0","\n","\n","#",
      " ","S","e","r","v","e","r"," ","s","t","a","r","t","e","n","\n","p",
      "u","b","l","i","c","_","u","r","l"," ","="," ","n","g","r","o","k",
      ".","c","o","n","n","e","c","t","(","5","0","0","0",")","\n","p","r",
      "i","n","t","(","f","\"","\\","n","U+1F310"," ","A","P","I"," ","U","R","L",
      ":"," ","{","p","u","b","l","i","c","_","u","r","l","}","\\","n","\"",
      ")","\n","a","p","p",".","r","u","n","(","p","o","r","t","=","5","0",
      "0","0",")","\n">>

\* NotebookParser._generate_api_code
generate_api_code(parameters, outputs, model_type) ==
  ApiCodeHead \o ExtractionStatements(parameters) \o ApiCodeTail

\* the NotebookAnalysis built at the end of _analyze_notebook, unless the
\* parameter detection raised (required_packages is left out)
NotebookAnalysis(metadata, parameters, outputs, has_gradio, has_flask, has_fastapi, model_type, raw_cells) ==
  IF parameters.raised THEN [raised |-> TRUE, analysis |-> None]
  ELSE [raised |-> FALSE,
        analysis |->
          [ title       |-> metadata.title,
            description |-> metadata.description,
            parameters  |-> parameters.parameters,
            outputs     |-> outputs,
            has_gradio  |-> has_gradio,
            has_flask   |-> has_flask,
            has_fastapi |-> has_fastapi,
            model_type  |-> model_type,
            raw_cells   |-> raw_cells,
            api_code    |-> generate_api_code(parameters.parameters, outputs,
                                              model_type) ]]

\* the steps of _analyze_notebook on the cells and their joined code
AnalyzeCells(cells, all_code, filename) ==
  NotebookAnalysis(
    extract_metadata(CellsOfType(cells, "markdown"), filename),
    detect_parameters(all_code),
    detect_outputs(all_code),
    Contains(Lower(all_code), Str.gradio) \/ Contains(all_code, Str.import_gr),
    Contains(Lower(all_code), Str.flask),
    Contains(Lower(all_code), Str.fastapi),
    detect_model_type(all_code),
    cells)

\* NotebookParser._analyze_notebook
analyze_notebook(notebook, filename) ==
  AnalyzeCells(CellsOf(notebook), AllCode(CellsOf(notebook)), filename)


(***************************************************************************)
(* Inputs: the texts notebooks are built from                              *)
(***************************************************************************)

\* source texts of code cells
CodeText ==
  [ width_768 |-> <<"w","i","d","t","h"," ","="," ","7","6","8","\n">>,
    show_1 |-> <<"s","h","o","w"," ","="," ","1","\n">>,
    cfg_bad |-> <<"c","f","g"," ","="," ","1",".","2",".","3","\n">>,
    textbox_punct |-> <<"g","r",".","T","e","x","t","b","o","x","(","l","a",
        "b","e","l","=","'","!","?","'",")","\n">>,
    slider_steps |-> <<"g","r",".","S","l","i","d","e","r","(","m","i","n",
        "i","m","u","m","=","1",","," ","m","a","x","i","m","u","m","=","9",
        ","," ","l","a","b","e","l","=","'","S","t","e","p","s","'",")","\n">>,
    checkbox_on |-> <<"g","r",".","C","h","e","c","k","b","o","x","(","l",
        "a","b","e","l","=","'","O","n","'",")","\n">>,
    widget_a_b |-> <<"w","i","d","g","e","t","s",".","T","e","x","t","(",
        "d","e","s","c","r","i","p","t","i","o","n","=","'","A"," ","b","'",
        ")","\n">>,
    image_a_b |-> <<"g","r",".","I","m","a","g","e","(","l","a","b","e","l",
        "=","'","a","_","b","'",")","\n">>,
    save_wav |-> <<"x",".","s","a","v","e","(","'","a",".","w","a","v","'",
        ")","\n">>,
    video_note |-> <<"#"," ","v","i","d","e","o","\n">> ]

\* source texts of markdown cells
DocText ==
  [ heading_a |-> <<"#"," ","A","\n">>,
    heading_b |-> <<"#"," ","B","\n">>,
    text_c |-> <<"c">> ]

\* file names handed to the parser
FileName ==
  [ ipynb |-> <<"m","y","_","n","b","-","1",".","i","p","y","n","b">>,
    plain |-> <<"n","o","t","e","b","o","o","k">> ]

RangeOf(f) == {f[k] : k \in DOMAIN f}

\* the "source" of a cell: one string, a list of lines, or no such key
StrSource(text) == [form |-> "str", parts |-> <<text>>]

ListSource(lines) == [form |-> "list", parts |-> lines]

NoSource == [form |-> "absent", parts |-> <<>>]

\* the sources a cell of the type is given
SourcesFor(cell_type) ==
  IF cell_type = "code"
  THEN {StrSource(t) : t \in RangeOf(CodeText) \ {CodeText.show_1}}
         \cup {ListSource(<<CodeText.show_1, CodeText.width_768>>), NoSource}
  ELSE {StrSource(t) : t \in RangeOf(DocText) \ {DocText.heading_b}}
         \cup {ListSource(<<DocText.heading_b, DocText.text_c>>), NoSource}

\* most cells a notebook is given
MaxCells == 2

(***************************************************************************)
(* State                                                                   *)
(***************************************************************************)

VARIABLES
  notebook,          \* the notebook structure being ingested
  phase,             \* "input": still being put together; "called": handed over
  call,              \* the last entry-point call: its name, file name and outcome
  parser_analysis,   \* NotebookParser.analysis
  current_analysis,  \* ColabGUIApp.current_analysis
  notebook_content,  \* LauncherAPI.notebook_content
  code_fragments,    \* the pieces of a code text handed to _detect_model_type
  detected_type,     \* what _detect_model_type returned for them, None before
  gui_parameters,    \* GUIGenerator.analysis.parameters
  html,              \* the page generate_html returned, None before
  dom,               \* the elements of the page by id when values are collected
  collected_params,  \* the params object of generate(), None before
  page,              \* the page shown in the window, None before
  colabUrl,          \* "let colabUrl" of the page
  isGenerating,      \* "let isGenerating" of the page
  generate_btn_disabled,  \* the disabled property of generate-btn
  lastImageData,     \* "let lastImageData" of the page: "" for none, or
                     \* the image it holds, "generated" or "loaded"
  loading_hidden,    \* the element "loading" has the class hidden
  progress_intervals,  \* the progress timers set and not cleared
  last_image_data,   \* EnhancedColabAPI.last_image_data, likewise
  posted_to,         \* the URL of the last generate request, <<>> before
  saved_image,       \* the image save_image wrote last, "" before
  result_status,     \* the kind of message in result-status, "" for none
  form,              \* whether the prompt holds text and an image is chosen
  generating,        \* the generate() invocations that wait, by what for
  enrich_calls,      \* the pending calls of the AI functions of the page
  api_url,           \* ColabManager.api_url
  manager_call,      \* the last call of the ColabManager, its reply and outcome
  requests_sent,     \* the HTTP requests sent so far
  loads,             \* the load_notebook calls made so far
  load_pending,      \* a load_notebook call waits for the chat completion
  notebook_loaded,   \* "let notebookLoaded" of the launcher page
  gui_analysis,      \* GUIGenerator.analysis of start_gui, None before
  gui_is_current,    \* it is the object current_analysis refers to
  label,             \* the label text handed to _sanitize_name
  names,             \* what _sanitize_name returned, pass after pass
  accounts,          \* ColabManager.accounts
  accounts_file,     \* the accounts written to accounts.json
  account_call       \* the last call of an account method and what it returned

parser_vars ==
  <<notebook, phase, call, parser_analysis, current_analysis, notebook_content>>

classifier_vars == <<code_fragments, detected_type>>

renderer_vars == <<gui_parameters, html, dom, collected_params>>

\* the loading indicator and the progress timers of the page
indicator_vars == <<loading_hidden, progress_intervals>>

\* the image of EnhancedColabAPI, the file written, the request posted
host_vars == <<last_image_data, posted_to, saved_image>>

page_vars ==
  <<page, colabUrl, isGenerating, generate_btn_disabled, lastImageData,
    result_status, form, generating, enrich_calls, indicator_vars, host_vars>>

transport_vars == <<api_url, manager_call, requests_sent>>

launcher_vars ==
  <<loads, load_pending, notebook_loaded, gui_analysis, gui_is_current>>

sanitizer_vars == <<label, names>>

\* the variables of the application, and those of the specifications of
\* single functions
app_vars ==
  <<parser_vars, classifier_vars, renderer_vars, page_vars, transport_vars,
    launcher_vars>>

account_vars == <<accounts, accounts_file, account_call>>

unit_vars == <<sanitizer_vars, account_vars>>

vars == <<app_vars, unit_vars>>

\* the variables the notebook entry points leave alone
outside_parser ==
  <<classifier_vars, renderer_vars, page_vars, transport_vars, launcher_vars,
    unit_vars>>

NoCall ==
  [ op |-> "none", filename |-> <<>>, raised |-> FALSE, returned |-> None ]

Init ==
  /\ notebook = [has_cells |-> TRUE, cells |-> <<>>]
  /\ phase = "input"
  /\ call = NoCall
  /\ parser_analysis = None
  /\ current_analysis = None
  /\ notebook_content = None
  /\ code_fragments = <<>>
  /\ detected_type = None
  /\ gui_parameters = <<>>
  /\ html = None
  /\ dom = None
  /\ collected_params = None
  /\ page = None
  /\ colabUrl = <<>>
  /\ isGenerating = FALSE
  /\ generate_btn_disabled = FALSE
  /\ lastImageData = ""
  /\ loading_hidden = TRUE
  /\ progress_intervals = 0
  /\ last_image_data = ""
  /\ posted_to = <<>>
  /\ saved_image = ""
  /\ result_status = ""
  /\ form = [prompt |-> FALSE, image |-> FALSE]
  /\ generating = [collect |-> 0, call |-> 0, settle_success |-> 0,
                   settle_empty |-> 0, settle_failure |-> 0]
  /\ enrich_calls = <<>>
  /\ api_url = <<>>
  /\ manager_call = [op |-> "none", reply |-> None, raised |-> FALSE,
                     returned |-> None]
  /\ requests_sent = 0
  /\ loads = 0
  /\ load_pending = FALSE
  /\ notebook_loaded = FALSE
  /\ gui_analysis = None
  /\ gui_is_current = FALSE
  /\ label = <<>>
  /\ names = <<>>
  /\ accounts = <<>>
  /\ accounts_file = <<>>
  /\ account_call = [op |-> "none", email |-> <<>>, returned |-> None]

(***************************************************************************)
(* Putting a notebook together (the .ipynb JSON the user supplies)         *)
(***************************************************************************)

\* a cell of the type with the source appended to "cells"
AddCell(cell_type, source) ==
  /\ phase = "input"
  /\ notebook.has_cells
  /\ Len(notebook.cells) < MaxCells
  /\ notebook' = [notebook EXCEPT !.cells =
                    Append(notebook.cells,
                           [cell_type |-> cell_type, source |-> source])]
  /\ UNCHANGED <<phase, call, parser_analysis, current_analysis,
                 notebook_content>>
  /\ UNCHANGED outside_parser

\* a JSON object without the "cells" key
OmitCells ==
  /\ phase = "input"
  /\ notebook.has_cells
  /\ notebook.cells = <<>>
  /\ notebook' = [notebook EXCEPT !.has_cells = FALSE]
  /\ UNCHANGED <<phase, call, parser_analysis, current_analysis,
                 notebook_content>>
  /\ UNCHANGED outside_parser

(***************************************************************************)
(* Entry points                                                            *)
(***************************************************************************)

\* what an entry point of the parser leaves, r being what _analyze_notebook
\* did: "self.analysis = NotebookAnalysis(...); return self.analysis", or
\* the exception
Analyzed(op, filename, r) ==
  /\ call' = [ op |-> op, filename |-> filename, raised |-> r.raised,
               returned |-> r.analysis ]
  /\ parser_analysis' = IF r.raised THEN parser_analysis ELSE r.analysis

\* NotebookParser.parse_json(notebook_json, filename)
parse_json(filename) ==
  /\ phase = "input"
  /\ Analyzed("parse_json", filename, analyze_notebook(notebook, filename))
  /\ phase' = "called"
  /\ UNCHANGED <<notebook, current_analysis, notebook_content>>
  /\ UNCHANGED outside_parser

\* NotebookParser.parse_file(file_path): the file holds the JSON text of the
\* notebook, or text json.load rejects; filename is the path's base name
parse_file(file_is_json, filename) ==
  /\ phase = "input"
  /\ IF file_is_json
     THEN Analyzed("parse_file", filename,
                   analyze_notebook(notebook, filename))
     ELSE /\ call' = [ op |-> "parse_file", filename |-> filename,
                       raised |-> TRUE, returned |-> None ]
          /\ UNCHANGED parser_analysis
  /\ phase' = "called"
  /\ UNCHANGED <<notebook, current_analysis, notebook_content>>
  /\ UNCHANGED outside_parser

\* the dict load_notebook_content returns on success (packages and
\* ai_available are left out)
SuccessResponse(analysis) ==
  [ success     |-> TRUE,
    title       |-> analysis.title,
    description |-> analysis.description,
    model_type  |-> analysis.model_type,
    parameters  |-> Len(analysis.parameters),
    has_gradio  |-> analysis.has_gradio ]

\* the dict the except branch returns
FailureResponse ==
  [ success |-> FALSE, title |-> <<>>, description |-> <<>>,
    model_type |-> <<>>, parameters |-> 0, has_gradio |-> FALSE ]

\* the body of load_notebook_content after json.loads, r being what
\* parse_json did: the assignments and the success dict, or the except branch
ContentLoaded(filename, r) ==
  /\ notebook_content' = notebook
  /\ parser_analysis' = IF r.raised THEN parser_analysis ELSE r.analysis
  /\ current_analysis' = IF r.raised THEN current_analysis ELSE r.analysis
  /\ call' = [ op |-> "load_notebook_content", filename |-> filename,
               raised |-> FALSE,
               returned |-> IF r.raised THEN FailureResponse
                            ELSE SuccessResponse(r.analysis) ]

\* LauncherAPI.load_notebook_content(content, filename); content is the
\* JSON text of the notebook, or text json.loads rejects
load_notebook_content(content_is_json, filename) ==
  /\ phase = "input"
  /\ IF content_is_json
     THEN ContentLoaded(filename, analyze_notebook(notebook, filename))
     ELSE /\ call' = [ op |-> "load_notebook_content", filename |-> filename,
                       raised |-> FALSE, returned |-> FailureResponse ]
          /\ UNCHANGED <<parser_analysis, current_analysis, notebook_content>>
  /\ phase' = "called"
  /\ UNCHANGED notebook
  /\ UNCHANGED outside_parser

Next ==
  \/ \E cell_type \in {"code", "markdown"} :
       \E source \in SourcesFor(cell_type) : AddCell(cell_type, source)
  \/ OmitCells
  \/ \E filename \in RangeOf(FileName) : parse_json(filename)
  \/ \E file_is_json \in BOOLEAN : parse_file(file_is_json, FileName.ipynb)
  \/ \E content_is_json \in BOOLEAN, filename \in RangeOf(FileName) :
       load_notebook_content(content_is_json, filename)

Spec == Init /\ [][Next]_vars


(***************************************************************************)
(* Properties                                                              *)
(***************************************************************************)

\* an Analysis has been returned by the parser
Returned == parser_analysis # None

\* the names of a parameter list, in order
NamesOf(parameters) == [i \in 1..Len(parameters) |-> parameters[i].name]

\* the kinds of an output list, in order
KindsOf(outputs) == [i \in 1..Len(outputs) |-> outputs[i].output_type]

\* the notebook has a code cell with the text as its source or as one of
\* the lines of its source
CodeHas(text) ==
  \E i \in 1..Len(notebook.cells) :
    /\ notebook.cells[i].cell_type = "code"
    /\ \E k \in 1..Len(notebook.cells[i].source.parts) :
         notebook.cells[i].source.parts[k] = text

\* the notebook has no code cell
NoCodeCells ==
  \A i \in 1..Len(notebook.cells) : notebook.cells[i].cell_type # "code"

\* the texts of the documentation cells, in order
DocTexts == SourceTexts(CellsOfType(notebook.cells, "markdown"))

\* the positions in a text where a heading line starts
HeadingStarts(text) ==
  {i \in 1..Len(text) : text[i] = "#" /\ (i = 1 \/ text[i - 1] = NL)}

\* the first heading line of a text that has one, without its marker
FirstHeading(text) ==
  Strip(Slice(text, Least(HeadingStarts(text)),
              RunEnd(text, Least(HeadingStarts(text)), "dot") - 1),
        SpaceChars \cup {"#"})

\* the documentation cells that contain a heading line
WithHeading == {i \in 1..Len(DocTexts) : HeadingStarts(DocTexts[i]) # {}}

\* the source name with the extension stripped, separators replaced by
\* spaces, title-cased
NormalizedName(filename) ==
  IF filename = FileName.ipynb THEN <<"M","y"," ","N","b"," ","1">>
  ELSE <<"N","o","t","e","b","o","o","k">>

\* C1: every Parameter name of a returned Analysis is unique within the
\* list, non-empty and made of the characters a-z, 0-9 and _ only,
\* including the names derived by sanitizing a widget label
C1_NamesUniqueAndWellFormed ==
  Returned =>
    \A i \in 1..Len(parser_analysis.parameters) :
      /\ parser_analysis.parameters[i].name # <<>>
      /\ \A k \in 1..Len(parser_analysis.parameters[i].name) :
           parser_analysis.parameters[i].name[k]
             \in LowerChars \cup DigitChars \cup {"_"}
      /\ \A j \in 1..Len(parser_analysis.parameters) :
           j # i => parser_analysis.parameters[j].name
                      # parser_analysis.parameters[i].name

\* a text box whose label is only punctuation has been analysed, and the
\* Analysis holds a Parameter with the empty name
C1_PunctuationLabelAnalysed ==
  /\ Returned
  /\ CodeHas(CodeText.textbox_punct)
  /\ \E i \in 1..Len(parser_analysis.parameters) :
       /\ parser_analysis.parameters[i].name = <<>>
       /\ parser_analysis.parameters[i].label = <<"!", "?">>

\* C2: the title is the first heading line of the earliest documentation
\* cell that contains one; a heading in a later documentation cell does not
\* override it
C2_FirstHeadingWins ==
  Returned /\ WithHeading # {} =>
    parser_analysis.title = FirstHeading(DocTexts[Least(WithHeading)])

\* two documentation cells with a heading each have been analysed, and the
\* title is the heading of the second and not that of the first
C2_LaterHeadingOverrides ==
  /\ Returned
  /\ WithHeading = {1, 2}
  /\ parser_analysis.title = FirstHeading(DocTexts[2])
  /\ parser_analysis.title # FirstHeading(DocTexts[1])

\* C3: the title is the normalized source name if and only if no
\* documentation cell contains a heading line, also when the heading comes
\* in a cell after the one that supplied the description
C3_FallbackTitleIffNoHeading ==
  Returned =>
    (parser_analysis.title = NormalizedName(call.filename)
       <=> WithHeading = {})

\* a heading in the documentation cell after the one that supplied the
\* description has been analysed, and the title is the normalized source name
C3_HeadingAfterDescriptionUnused ==
  /\ Returned
  /\ Len(DocTexts) = 2
  /\ WithHeading = {2}
  /\ parser_analysis.description = DocTexts[1]
  /\ parser_analysis.title = NormalizedName(call.filename)

\* C4: analyze never raises: for any ordered list of cells an Analysis is
\* returned, also when an assignment pattern matches a token that is no
\* valid number
C4_AnalyzeNeverRaises ==
  call.op = "parse_json" => ~call.raised /\ call.returned # None

\* code with the assignment cfg = 1.2.3 has been handed to the parser, which
\* raised and returned no Analysis
C4_InvalidNumberRaises ==
  /\ call.op = "parse_json"
  /\ CodeHas(CodeText.cfg_bad)
  /\ call.raised
  /\ parser_analysis = None

\* C5: a notebook structure without the cells key is a hard ingestion
\* error: parse_json and parse_file raise and load_notebook_content reports
\* a failure, none returns an Analysis or a success result
C5_MissingCellsIsAnError ==
  ~notebook.has_cells =>
    /\ call.op \in {"parse_json", "parse_file"} => call.raised
    /\ call.op = "load_notebook_content" => ~call.returned.success

\* a structure without the cells key has been handed to
\* load_notebook_content, which reported success and installed an Analysis
C5_MissingCellsAccepted ==
  /\ ~notebook.has_cells
  /\ call.op = "load_notebook_content"
  /\ call.returned.success
  /\ current_analysis # None

\* C6: for a notebook with zero code cells the Analysis has exactly the
\* fallback parameters prompt, negative_prompt, width, height, steps in that
\* order and exactly one Output, of kind image
C6_NoCodeCellsGivesFallback ==
  Returned /\ NoCodeCells =>
    /\ NamesOf(parser_analysis.parameters)
         = <<Str.prompt, Str.negative_prompt, Str.width, Str.height,
             Str.steps>>
    /\ KindsOf(parser_analysis.outputs) = <<"image">>

\* a notebook of two documentation cells and no code cell has been analysed
C6_DocumentationOnlyAnalysed ==
  Returned /\ NoCodeCells /\ Len(notebook.cells) = 2

\* C7: when the code holds the explicit assignment width = 768 the width
\* Parameter exists and its default is 768, whatever other text, such as an
\* assignment to a variable ending in w, comes before or after it
C7_ExplicitAssignmentWins ==
  Returned /\ CodeHas(CodeText.width_768) =>
    /\ \E i \in 1..Len(parser_analysis.parameters) :
         parser_analysis.parameters[i].name = Str.width
    /\ \A i \in 1..Len(parser_analysis.parameters) :
         parser_analysis.parameters[i].name = Str.width
           => parser_analysis.parameters[i].default_value = IntV(768)

\* code with width = 768 after an assignment to a variable ending in w has
\* been analysed, and the default of width is the value of that variable
C7_OtherAssignmentBeforeWidth ==
  /\ Returned
  /\ CodeHas(CodeText.width_768)
  /\ CodeHas(CodeText.show_1)
  /\ \E i \in 1..Len(parser_analysis.parameters) :
       /\ parser_analysis.parameters[i].name = Str.width
       /\ parser_analysis.parameters[i].default_value = IntV(1)

\* the constructor calls of the input texts with a well-formed label: the
\* name and kind of the candidate each stands for
ConstructorCalls ==
  { [text |-> CodeText.slider_steps, name |-> Str.steps,
     kind |-> ParameterType.SLIDER],
    [text |-> CodeText.checkbox_on, name |-> <<"o","n">>,
     kind |-> ParameterType.CHECKBOX],
    [text |-> CodeText.widget_a_b, name |-> <<"a","_","b">>,
     kind |-> ParameterType.TEXT],
    [text |-> CodeText.image_a_b, name |-> <<"a","_","b">>,
     kind |-> ParameterType.IMAGE] }

\* C8: every match of a widget-constructor pattern (text box, slider,
\* numeric field, checkbox, dropdown, image upload, file upload) yields a
\* candidate named by the sanitized label, so the result has a Parameter of
\* that name, and of the constructor's kind when the call is the only
\* source of the name
C8_EveryConstructorYieldsACandidate ==
  Returned =>
    \A c \in ConstructorCalls :
      CodeHas(c.text) =>
        \E i \in 1..Len(parser_analysis.parameters) :
          /\ parser_analysis.parameters[i].name = c.name
          /\ (\A d \in ConstructorCalls \ {c} : ~CodeHas(d.text))
               => parser_analysis.parameters[i].param_type = c.kind

\* code with a checkbox constructor call has been analysed, and the
\* Analysis has no Parameter of kind checkbox
C8_CheckboxIgnored ==
  /\ Returned
  /\ CodeHas(CodeText.checkbox_on)
  /\ \A i \in 1..Len(parser_analysis.parameters) :
       parser_analysis.parameters[i].param_type # ParameterType.CHECKBOX

\* the candidates in accumulation order: the standard checklist, then the
\* widget-constructor matches
Candidates ==
  detect_standard_image_params(AllCode(notebook.cells)).params
    \o detect_gradio_params(AllCode(notebook.cells))
    \o detect_widget_params(AllCode(notebook.cells))

\* the first i candidates with every one whose name occurred earlier removed
RECURSIVE Survivors(_, _)
Survivors(c, i) ==
  IF i = 0 THEN <<>>
  ELSE Survivors(c, i - 1)
         \o (IF \A j \in 1..(i - 1) : c[j].name # c[i].name THEN <<c[i]>>
             ELSE <<>>)

\* the candidates without the later ones of a name
FirstDetections(c) == Survivors(c, Len(c))

\* C9 as stated: the final parameter list is the concatenation of the
\* candidate lists with every candidate whose name occurred earlier removed
C9_ListIsFirstDetections ==
  Returned => parser_analysis.parameters = FirstDetections(Candidates)

\* the parameter list a list of candidates leaves
ListFor(candidates, parameters) ==
  IF candidates # <<>> THEN parameters = FirstDetections(candidates)
  ELSE NamesOf(parameters)
         = <<Str.prompt, Str.negative_prompt, Str.width, Str.height,
             Str.steps>>

\* C9: when a candidate was detected, the final parameter list is the
\* concatenation of the candidate lists with every candidate whose name
\* occurred earlier removed, in order and with the kind, default and label
\* of the first detection; when none was, it is the five fallback parameters
C9_FirstDetectionWins ==
  Returned => ListFor(Candidates, parser_analysis.parameters)

\* an image upload and a text widget of the same name have been analysed:
\* the one Parameter of that name is the image upload
C9_DuplicatesAnalysed ==
  /\ Returned
  /\ CodeHas(CodeText.image_a_b)
  /\ CodeHas(CodeText.widget_a_b)
  /\ Len(Candidates) = 2
  /\ Len(parser_analysis.parameters) = 1
  /\ parser_analysis.parameters[1].param_type = ParameterType.IMAGE

\* C10: the output list is non-empty and has at most one Output per kind;
\* the image, audio and video families are tested independently, and the
\* default image output is there if and only if none of them matched
C10_OutputsPerFamily ==
  Returned =>
    /\ parser_analysis.outputs # <<>>
    /\ \A i, j \in 1..Len(parser_analysis.outputs) :
         i # j => parser_analysis.outputs[i].output_type
                    # parser_analysis.outputs[j].output_type
    /\ KindsOf(parser_analysis.outputs)
         = IF CodeHas(CodeText.save_wav) \/ CodeHas(CodeText.video_note)
           THEN (IF CodeHas(CodeText.save_wav) THEN <<"image", "audio">>
                 ELSE <<>>)
                \o (IF CodeHas(CodeText.video_note) THEN <<"video">>
                    ELSE <<>>)
           ELSE <<"image">>

\* code that saves a .wav file and mentions video has been analysed
C10_AllFamiliesAnalysed ==
  Returned /\ Len(parser_analysis.outputs) = 3

(***************************************************************************)
(* Model-type classification on code text of its own                       *)
(***************************************************************************)

\* pieces of code text a cell may be written from
CodeFragment ==
  [ flux_upper   |-> <<"F","L","U","X",".","1">>,
    sdxl_mixed   |-> <<"S","d","x","l">>,
    sdxl_repo    |-> <<"s","t","a","b","l","e","-","d","i","f","f","u","s","i","o",
        "n","-","x","l","-","b","a","s","e">>,
    controlnet   |-> <<"C","o","n","t","r","o","l","N","e","t","M","o","d","e","l">>,
    sd_pipeline  |-> <<"S","t","a","b","l","e","D","i","f","f","u","s","i","o","n",
        "P","i","p","e","l","i","n","e">>,
    runwayml     |-> <<"R","u","n","w","a","y","M","L","/">>,
    compvis      |-> <<"c","o","m","p","v","i","s">>,
    diffusers    |-> <<"f","r","o","m"," ","D","i","f","f","u","s","e","r","s"," ">>,
    transformers |-> <<"i","m","p","o","r","t"," ","t","r","a","n","s","f","o","r",
        "m","e","r","s">>,
    sd           |-> <<"s","d">>,
    xl           |-> <<"x","l">>,
    torch        |-> <<"i","m","p","o","r","t"," ","t","o","r","c","h","\n">> ]

MaxFragments == 2

\* one more piece of code text
WriteCode(fragment) ==
  /\ detected_type = None
  /\ Len(code_fragments) < MaxFragments
  /\ code_fragments' = Append(code_fragments, fragment)
  /\ UNCHANGED <<detected_type, parser_vars, renderer_vars, page_vars, transport_vars, launcher_vars, unit_vars>>

\* NotebookParser._detect_model_type(code) on the text written
classify_code ==
  /\ detected_type = None
  /\ detected_type' = StrV(detect_model_type(Join(code_fragments)))
  /\ UNCHANGED <<code_fragments, parser_vars, renderer_vars, page_vars, transport_vars, launcher_vars, unit_vars>>

ClassifierNext ==
  \/ \E fragment \in RangeOf(CodeFragment) : WriteCode(fragment)
  \/ classify_code

ClassifierSpec == Init /\ [][ClassifierNext]_vars

\* the families in the priority order, each with its keywords
FamilyLadder ==
  << [family |-> Str.flux, keywords |-> {Str.flux}],
     [family |-> Str.sdxl, keywords |-> {Str.sdxl, Str.stable_diffusion_xl}],
     [family |-> Str.controlnet, keywords |-> {Str.controlnet}],
     [family |-> Str.stable_diffusion_type,
      keywords |-> {Str.StableDiffusion, Str.stable_diffusion, Str.runwayml,
                    Str.CompVis}],
     [family |-> Str.diffusers, keywords |-> {Str.diffusers}],
     [family |-> Str.transformers, keywords |-> {Str.transformers}] >>

\* a keyword of the n-th family occurs in the text, whatever the case
FamilyMatches(n, text) ==
  \E keyword \in FamilyLadder[n].keywords :
    Contains(Lower(text), Lower(keyword))

\* C11: the classification of any code text is total: it is the first
\* family of the priority order flux, sdxl, controlnet, stable_diffusion,
\* diffusers, transformers with a keyword that occurs in the text whatever
\* the case, and it is unknown exactly when no family has one
C11_FirstMatchingFamily ==
  detected_type # None =>
    /\ detected_type.ty = "str"
    /\ detected_type.s \in
         {FamilyLadder[n].family : n \in 1..6} \cup {Str.unknown}
    /\ \A n \in 1..6 :
         detected_type.s = FamilyLadder[n].family <=>
           /\ FamilyMatches(n, Join(code_fragments))
           /\ \A m \in 1..(n - 1) : ~FamilyMatches(m, Join(code_fragments))
    /\ detected_type.s = Str.unknown <=>
         \A n \in 1..6 : ~FamilyMatches(n, Join(code_fragments))

\* the text "stable-diffusion-xl-base" followed by "ControlNetModel", which
\* has keywords of three families, has been classified
C11_SeveralFamiliesClassified ==
  /\ code_fragments = <<CodeFragment.sdxl_repo, CodeFragment.controlnet>>
  /\ detected_type = StrV(Str.sdxl)

(***************************************************************************)
(* GUIGenerator: the parameter fields of the page and the JavaScript that  *)
(* collects their values                                                   *)
(***************************************************************************)

MaxParameters == 2

\* True and False
BoolV(b) == [ty |-> "bool", n |-> IF b THEN 1 ELSE 0, d |-> 1, s |-> <<>>]

\* NaN of JavaScript
NaN == [ty |-> "nan", n |-> 0, d |-> 1, s |-> <<>>]

\* truth of a value in "x or y" of Python and in "x || y" of JavaScript
Truthy(v) ==
  CASE v.ty \in {"none", "nan"} -> FALSE
    [] v.ty = "str" -> v.s # <<>>
    [] OTHER -> v.n # 0

\* a || b
Or(a, b) == IF Truthy(a) THEN a ELSE b

\* the name of the i-th Parameter of the Analysis handed to the generator
ParameterName(i) == <<"p", <<"0","1","2","3","4","5","6","7","8","9">>[i + 1]>>

\* the defaults a Parameter of the kind is given here
DefaultsFor(param_type) ==
  IF param_type = ParameterType.CHECKBOX THEN {None, BoolV(TRUE)} ELSE {None}

\* a Parameter of the Analysis appended: any kind, with or without a default
AddParameter(param_type, default_value) ==
  /\ html = None
  /\ Len(gui_parameters) < MaxParameters
  /\ gui_parameters' =
       Append(gui_parameters,
              [Parameter(ParameterName(Len(gui_parameters) + 1), param_type,
                         ParameterName(Len(gui_parameters) + 1))
                 EXCEPT !.default_value = default_value])
  /\ UNCHANGED <<html, dom, collected_params, parser_vars, classifier_vars, page_vars, transport_vars, launcher_vars, unit_vars>>

\* the parameters of the kinds, in the order of the list
OfKinds(parameters, kinds) ==
  SelectSeq(parameters, LAMBDA p : p.param_type \in kinds)

\* _generate_text_field ... _generate_file_field: the element that holds the
\* value, with its id
Field(param) ==
  [ param_type |-> param.param_type,
    name       |-> param.name,
    id         |-> IF param.param_type = ParameterType.IMAGE
                   THEN param.name \o <<"_","i","n","p","u","t">> ELSE param.name,
    checked    |-> /\ param.param_type = ParameterType.CHECKBOX
                   /\ Truthy(param.default_value) ]

\* fields.append(field) for each parameter of the list
FormGroups(parameters) ==
  [i \in 1..Len(parameters) |->
     [container |-> "form-group", fields |-> <<Field(parameters[i])>>]]

\* one <div class="grid-2"> or "grid-3" around the fields, if there are any
Grid(container, parameters) ==
  IF parameters = <<>> THEN <<>>
  ELSE <<[container |-> container,
          fields |-> [i \in 1..Len(parameters) |-> Field(parameters[i])]]>>

\* the fields one after the other, as the parameters are listed
FieldsAsDeclared(parameters) == FormGroups(OfKinds(parameters, RangeOf(ParameterType) \ {ParameterType.COLOR}))

\* GUIGenerator._generate_parameter_fields
generate_parameter_fields(parameters) ==
  FormGroups(OfKinds(parameters, {ParameterType.TEXT, ParameterType.TEXTAREA}))
  \o FormGroups(OfKinds(parameters, {ParameterType.IMAGE}))
  \o FormGroups(OfKinds(parameters, {ParameterType.FILE}))
  \o Grid("grid-2", OfKinds(parameters, {ParameterType.SLIDER}))
  \o Grid("grid-3", OfKinds(parameters, {ParameterType.NUMBER}))
  \o FormGroups(OfKinds(parameters, {ParameterType.DROPDOWN}))
  \o FormGroups(OfKinds(parameters, {ParameterType.CHECKBOX}))

\* the line with every kind but image read as a string value
StringRule(param) ==
  [ name |-> param.name,
    id   |-> IF param.param_type = ParameterType.IMAGE
             THEN param.name \o <<"_","i","n","p","u","t">> ELSE param.name,
    read |-> IF param.param_type = ParameterType.IMAGE
             THEN "getImageBase64" ELSE "value" ]

\* the line _generate_param_collection_js writes for a parameter:
\* params[name] = <read>(document.getElementById(id))
CollectionRule(param) ==
  [ name |-> param.name,
    id   |-> IF param.param_type = ParameterType.IMAGE
             THEN param.name \o <<"_","i","n","p","u","t">> ELSE param.name,
    read |-> IF param.param_type = ParameterType.CHECKBOX THEN "checked"
             ELSE IF param.param_type = ParameterType.IMAGE
               THEN "getImageBase64"
             ELSE IF param.param_type \in
                       {ParameterType.SLIDER, ParameterType.NUMBER}
               THEN "parseFloat"
             ELSE "value" ]

\* GUIGenerator._generate_param_collection_js
generate_param_collection_js(parameters) ==
  [i \in 1..Len(parameters) |-> CollectionRule(parameters[i])]

\* GUIGenerator.generate_html(): the parts of the page that depend on the
\* parameters
generate_html ==
  /\ html = None
  /\ html' = [ty |-> "html",
              fields |-> generate_parameter_fields(gui_parameters),
              collection |-> generate_param_collection_js(gui_parameters)]
  /\ UNCHANGED <<gui_parameters, dom, collected_params, parser_vars,
                 classifier_vars, page_vars, transport_vars, launcher_vars, unit_vars>>

\* the fields of the page, container after container
PageFields ==
  IF html = None THEN <<>>
  ELSE Join([i \in 1..Len(html.fields) |-> html.fields[i].fields])

\* the element of a field as the page shows it first
Rendered(field) ==
  [ value   |-> CASE field.param_type = ParameterType.SLIDER -> <<"0">>
                  [] field.param_type = ParameterType.CHECKBOX -> <<"o","n">>
                  [] OTHER -> <<>>,
    checked |-> field.checked,
    files   |-> <<>> ]

\* the element after the user has typed, moved, ticked or chosen something
Edited(field) ==
  [ value   |-> CASE field.param_type \in {ParameterType.SLIDER,
                                          ParameterType.NUMBER} -> <<"2",".","5">>
                  [] field.param_type = ParameterType.CHECKBOX -> <<"o","n">>
                  [] field.param_type = ParameterType.DROPDOWN -> <<"a">>
                  [] field.param_type \in {ParameterType.FILE,
                                          ParameterType.IMAGE}
                       -> <<"C",":","\\","f","a","k","e","p","a","t","h","\\","a",".","p",
        "n","g">>
                  [] OTHER -> <<" ","a"," ">>,
    checked |-> ~field.checked,
    files   |-> IF field.param_type \in {ParameterType.FILE,
                                         ParameterType.IMAGE}
                THEN <<<<"d","a","t","a",":","i","m","a","g","e","/","p","n","g",";",
        "b","a","s","e","6","4",",","Q","U","J","D">>>> ELSE <<>> ]

\* the elements of the document by id; a field marked "absent" is missing
\* from the hosting page
Document(marks) ==
  [id \in {PageFields[i].id : i \in {j \in DOMAIN marks : marks[j] # "absent"}} |->
     LET field == CHOOSE f \in RangeOf(PageFields) : f.id = id
     IN  IF marks[CHOOSE i \in DOMAIN marks : PageFields[i].id = id] = "edited"
         THEN Edited(field) ELSE Rendered(field)]

\* document.getElementById(id)?.value, ?.checked
Property(document, id, property) ==
  IF id \notin DOMAIN document THEN None
  ELSE IF property = "checked" THEN BoolV(document[id].checked)
  ELSE StrV(document[id].value)

\* parseFloat(v): the number written at the start of the string after white
\* space (digits with an optional fraction), NaN if there is none
parseFloat(v) ==
  IF v.ty # "str" THEN FloatV(v.n, v.d)
  ELSE LET i == LStripAt(v.s, SpaceChars, 1)
           j == RunEnd(v.s, i, "digit")
           k == IF j <= Len(v.s) /\ v.s[j] = "."
                THEN RunEnd(v.s, j + 1, "digit") ELSE j
           fraction == IF k > j + 1 THEN Slice(v.s, j + 1, k - 1) ELSE <<>>
       IN  IF j = i /\ fraction = <<>> THEN NaN
           ELSE FloatV(DigitsValue(Slice(v.s, i, j - 1) \o fraction, 0),
                       Pow10(Len(fraction)))

\* getImageBase64(inputId): null without element or file, else what follows
\* the first comma of the data URL, up to the next one
getImageBase64(document, inputId) ==
  IF inputId \notin DOMAIN document THEN None
  ELSE IF document[inputId].files = <<>> THEN None
  ELSE LET url  == document[inputId].files[1]
           from == Least({i \in 1..Len(url) : url[i] = ","} \cup {Len(url) + 1})
           to   == Least({i \in (from + 1)..Len(url) : url[i] = ","}
                         \cup {Len(url) + 1})
       IN  StrV(Slice(url, from + 1, to - 1))

\* the value a collection line assigns
Collect(rule, document) ==
  CASE rule.read = "checked" ->
         Or(Property(document, rule.id, "checked"), BoolV(FALSE))
    [] rule.read = "getImageBase64" -> getImageBase64(document, rule.id)
    [] rule.read = "parseFloat" ->
         parseFloat(Or(Property(document, rule.id, "value"), IntV(0)))
    [] OTHER -> Or(Property(document, rule.id, "value"), StrV(<<>>))

\* the params object after the lines have run in their order
ParamsOf(collection, document) ==
  [name \in {collection[i].name : i \in DOMAIN collection} |->
     Collect(collection[CHOOSE i \in DOMAIN collection :
                          /\ collection[i].name = name
                          /\ \A j \in DOMAIN collection :
                               collection[j].name = name => j <= i],
             document)]

\* "const params = {}" and the collection lines of generate(), run on the
\* document as it is then
collect_params(marks) ==
  /\ html # None
  /\ collected_params = None
  /\ dom' = Document(marks)
  /\ collected_params' = ParamsOf(html.collection, Document(marks))
  /\ UNCHANGED <<gui_parameters, html, parser_vars, classifier_vars, page_vars, transport_vars, launcher_vars, unit_vars>>

RendererNext ==
  \/ \E param_type \in RangeOf(ParameterType) :
       \E default_value \in DefaultsFor(param_type) :
         AddParameter(param_type, default_value)
  \/ generate_html
  \/ \E marks \in [DOMAIN PageFields -> {"absent", "rendered", "edited"}] :
       collect_params(marks)

RendererSpec == Init /\ [][RendererNext]_vars

\* the parameters of the kind groups, in the order of the Analysis
Listed(kinds) == OfKinds(gui_parameters, kinds)

\* the element of the i-th parameter at the time of collection, None if the
\* document has none
ElementOf(i) ==
  IF gui_parameters[i].name \in DOMAIN dom
  THEN dom[gui_parameters[i].name] ELSE None

\* C12: the collection mapping has exactly one rule per Parameter, by kind:
\* numeric and range fields parse a float and yield 0 when the control is
\* empty or absent, image fields take the result of the base64 step, and
\* text, multiline, choice and file fields yield the control's string value
\* with surrounding white space trimmed, the empty string when the control
\* is empty or absent
C12_RulePerKind ==
  collected_params # None =>
    /\ Len(html.collection) = Len(gui_parameters)
    /\ \A i \in DOMAIN gui_parameters :
         LET kind  == gui_parameters[i].param_type
             name  == gui_parameters[i].name
             value == collected_params[name]
         IN  /\ html.collection[i].name = name
             /\ kind \in {ParameterType.NUMBER, ParameterType.SLIDER} =>
                  /\ value.ty = "float"
                  /\ (ElementOf(i) = None \/ ElementOf(i).value = <<>>)
                       => value = FloatV(0, 1)
             /\ kind = ParameterType.IMAGE =>
                  /\ html.collection[i].read = "getImageBase64"
                  /\ value = getImageBase64(dom, html.collection[i].id)
             /\ kind \in {ParameterType.TEXT, ParameterType.TEXTAREA,
                          ParameterType.DROPDOWN, ParameterType.FILE} =>
                  value = IF ElementOf(i) = None THEN StrV(<<>>)
                          ELSE StrV(Strip(ElementOf(i).value, SpaceChars))

\* a text field holding " a " has been collected as " a "
C12_PaddedTextCollected ==
  /\ collected_params # None
  /\ \E i \in DOMAIN gui_parameters :
       /\ gui_parameters[i].param_type = ParameterType.TEXT
       /\ ElementOf(i) # None
       /\ ElementOf(i).value = <<" ","a"," ">>
       /\ collected_params[gui_parameters[i].name] = StrV(<<" ","a"," ">>)

\* C13: for a checkbox Parameter, whatever its default, the collected value
\* is false when the control is absent or unchecked and true only when the
\* control exists and is checked
C13_CheckboxReadsCheckedState ==
  collected_params # None =>
    \A i \in DOMAIN gui_parameters :
      gui_parameters[i].param_type = ParameterType.CHECKBOX =>
        collected_params[gui_parameters[i].name] =
          BoolV(ElementOf(i) # None /\ ElementOf(i).checked)

\* a checkbox with default True whose control is absent has been collected
\* as false, next to one that is ticked and collected as true
C13_AbsentCheckboxCollected ==
  /\ collected_params # None
  /\ Len(gui_parameters) = 2
  /\ gui_parameters[1].param_type = ParameterType.CHECKBOX
  /\ gui_parameters[1].default_value = BoolV(TRUE)
  /\ ElementOf(1) = None
  /\ collected_params[gui_parameters[1].name] = BoolV(FALSE)
  /\ gui_parameters[2].param_type = ParameterType.CHECKBOX
  /\ ElementOf(2) # None
  /\ collected_params[gui_parameters[2].name] = BoolV(TRUE)

\* the names of the fields of a container
FieldNames(block) == NamesOf(block.fields)

\* the containers that hold a field of one of the kinds
BlocksOf(kinds) ==
  SelectSeq(html.fields,
            LAMBDA b : \E i \in DOMAIN b.fields : b.fields[i].param_type \in kinds)

\* C14: the layout is grouped by kind: the text and textarea fields come
\* first, the sliders are together in one two-per-row container, the numeric
\* fields together in one three-per-row container, then come the dropdowns,
\* then the checkboxes, and within each group the fields are in the order of
\* the Analysis's parameters
C14_LayoutGroupedByKind ==
  html # None =>
    LET texts      == Listed({ParameterType.TEXT, ParameterType.TEXTAREA})
        sliders    == Listed({ParameterType.SLIDER})
        numbers    == Listed({ParameterType.NUMBER})
        dropdowns  == Listed({ParameterType.DROPDOWN})
        checkboxes == Listed({ParameterType.CHECKBOX})
        grouped    == OfKinds(PageFields,
                        {ParameterType.TEXT, ParameterType.TEXTAREA,
                         ParameterType.SLIDER, ParameterType.NUMBER,
                         ParameterType.DROPDOWN, ParameterType.CHECKBOX})
    IN  /\ NamesOf(grouped) =
             NamesOf(texts \o sliders \o numbers \o dropdowns \o checkboxes)
        /\ NamesOf(SubSeq(PageFields, 1, Len(texts))) = NamesOf(texts)
        /\ \A i \in 1..Len(texts) :
             /\ html.fields[i].container = "form-group"
             /\ FieldNames(html.fields[i]) = <<texts[i].name>>
        /\ BlocksOf({ParameterType.SLIDER}) =
             IF sliders = <<>> THEN <<>>
             ELSE <<[container |-> "grid-2",
                     fields |-> [i \in 1..Len(sliders) |-> Field(sliders[i])]]>>
        /\ BlocksOf({ParameterType.NUMBER}) =
             IF numbers = <<>> THEN <<>>
             ELSE <<[container |-> "grid-3",
                     fields |-> [i \in 1..Len(numbers) |-> Field(numbers[i])]]>>
        /\ \A i \in DOMAIN html.fields :
             html.fields[i].container = "form-group"
               => Len(html.fields[i].fields) = 1

\* a page has been generated for a checkbox listed before a slider: the
\* slider's container comes first
C14_LaterKindListedFirst ==
  /\ html # None
  /\ Len(gui_parameters) = 2
  /\ gui_parameters[1].param_type = ParameterType.CHECKBOX
  /\ gui_parameters[2].param_type = ParameterType.SLIDER
  /\ html.fields[1].container = "grid-2"
  /\ FieldNames(html.fields[2]) = <<gui_parameters[1].name>>

(***************************************************************************)
(* ColabManager: the calls to the Colab backend                            *)
(***************************************************************************)

\* HTTP requests sent at most
MaxRequests == 3

\* URLs the user may enter
BackendUrl ==
  [ none |-> <<>>, a |-> <<"h","t","t","p",":","/","/","a">>, a_slash |-> <<"h","t","t","p",":","/","/","a","/">>, b |-> <<"h","t","t","p",":","/","/","b","/","/">> ]

\* the status code as it is printed in a message
StatusText(status_code) ==
  CASE status_code = 200 -> <<"2","0","0">> [] status_code = 404 -> <<"4","0","4">>
    [] status_code = 500 -> <<"5","0","0">>

\* what may come of one HTTP request: an exception of requests (Timeout,
\* ConnectionError, another one with its text), or a response with a status
\* code and a body (a JSON object with or without "message", a JSON array,
\* or text that is no JSON)
Replies ==
  [kind : {"timeout", "connection_error"}, text : {<<>>}, status_code : {0},
   body : {"none"}]
  \cup [kind : {"exception"}, text : {<<>>, <<"b","o","o","m">>}, status_code : {0},
        body : {"none"}]
  \cup [kind : {"response"}, text : {<<>>}, status_code : {200, 404, 500},
        body : {"object", "object_with_message", "array", "not_json"}]

\* {'success': False, 'message': message}
FailureResult(message) ==
  [raised |-> FALSE,
   returned |-> [form |-> "dict", success |-> FALSE, message |-> message]]

\* response.json(): the value, or the text of the exception it raises
ResponseJson(reply) ==
  IF reply.body = "not_json"
  THEN [raised |-> TRUE, text |-> <<"E","x","p","e","c","t","i","n","g"," ","v","a","l","u","e",
        ":"," ","l","i","n","e"," ","1"," ","c","o","l","u","m",
        "n"," ","1"," ","(","c","h","a","r"," ","0",")">>]
  ELSE [raised |-> FALSE, text |-> <<>>]

\* generate with its last except clause left out
GenerateCatchingTimeoutOnly(url, reply) ==
  IF url = <<>> THEN FailureResult(<<"K","e","i","n","e"," ","A","P","I","-","U","R","L"," ","k",
        "o","n","f","i","g","u","r","i","e","r","t">>)
  ELSE IF reply.kind = "timeout"
    THEN FailureResult(<<"Z","e","i","t","Ã","¼","b","e","r","s","c","h","r","e","i",
        "t","u","n","g"," ","b","e","i"," ","d","e","r"," ","G",
        "e","n","e","r","i","e","r","u","n","g">>)
  ELSE IF reply.kind = "response" /\ reply.status_code # 200
    THEN FailureResult(<<"S","e","r","v","e","r","-","F","e","h","l","e","r",":"," ">> \o StatusText(reply.status_code))
  ELSE IF reply.kind = "response" /\ ~ResponseJson(reply).raised
    THEN [raised |-> FALSE,
          returned |-> [form |-> reply.body]]
  ELSE [raised |-> TRUE, returned |-> None]

\* ColabManager.check_connection with self.api_url = url and the request
\* answered by reply
CheckConnectionResult(url, reply) ==
  IF url = <<>> THEN FailureResult(<<"K","e","i","n","e"," ","A","P","I","-","U","R","L"," ","k",
        "o","n","f","i","g","u","r","i","e","r","t">>)
  ELSE IF reply.kind = "timeout"
    THEN FailureResult(<<"Z","e","i","t","Ã","¼","b","e","r","s","c","h","r","e","i",
        "t","u","n","g"," ","-"," ","S","e","r","v","e","r"," ",
        "a","n","t","w","o","r","t","e","t"," ","n","i","c","h",
        "t">>)
  ELSE IF reply.kind = "connection_error"
    THEN FailureResult(<<"V","e","r","b","i","n","d","u","n","g","s","f","e","h","l",
        "e","r"," ","-"," ","U","R","L"," ","p","r","Ã","¼","f",
        "e","n">>)
  ELSE IF reply.kind = "exception"
    THEN FailureResult(<<"F","e","h","l","e","r",":"," ">> \o reply.text)
  ELSE IF reply.status_code # 200
    THEN FailureResult(<<"S","e","r","v","e","r","-","F","e","h","l","e","r",":"," ",
        "S","t","a","t","u","s"," ">> \o StatusText(reply.status_code))
  ELSE IF ResponseJson(reply).raised
    THEN FailureResult(<<"F","e","h","l","e","r",":"," ">> \o ResponseJson(reply).text)
  ELSE IF reply.body = "array"
    THEN FailureResult(<<"F","e","h","l","e","r",":"," ","'","l","i","s","t","'"," ",
        "o","b","j","e","c","t"," ","h","a","s"," ","n","o"," ",
        "a","t","t","r","i","b","u","t","e"," ","'","g","e","t",
        "'">>)
  ELSE [raised |-> FALSE,
        returned |-> [form |-> "dict", success |-> TRUE,
                      message |-> IF reply.body = "object_with_message"
                                  THEN <<"o","k">> ELSE <<"V","e","r","b","i","n","d","u","n","g"," ","e","r","f","o",
        "l","g","r","e","i","c","h","!">>]]

\* ColabManager.generate with self.api_url = url and the request answered by
\* reply; a 200 response hands back the JSON value of the body as it is
GenerateResult(url, reply) ==
  IF url = <<>> THEN FailureResult(<<"K","e","i","n","e"," ","A","P","I","-","U","R","L"," ","k",
        "o","n","f","i","g","u","r","i","e","r","t">>)
  ELSE IF reply.kind = "timeout"
    THEN FailureResult(<<"Z","e","i","t","Ã","¼","b","e","r","s","c","h","r","e","i",
        "t","u","n","g"," ","b","e","i"," ","d","e","r"," ","G",
        "e","n","e","r","i","e","r","u","n","g">>)
  ELSE IF reply.kind \in {"connection_error", "exception"}
    THEN FailureResult(<<"F","e","h","l","e","r",":"," ">> \o reply.text)
  ELSE IF reply.status_code # 200
    THEN FailureResult(<<"S","e","r","v","e","r","-","F","e","h","l","e","r",":"," ">> \o StatusText(reply.status_code))
  ELSE IF ResponseJson(reply).raised
    THEN FailureResult(<<"F","e","h","l","e","r",":"," ">> \o ResponseJson(reply).text)
  ELSE [raised |-> FALSE,
        returned |-> [form |-> reply.body]]

\* ColabManager.set_api_url(url)
set_api_url(url) ==
  /\ api_url' = Slice(url, 1, RStripAt(url, {"/"}, Len(url)))
  /\ manager_call' = [op |-> "set_api_url", reply |-> None, raised |-> FALSE,
                      returned |-> [form |-> "dict", success |-> TRUE,
                                    message |-> <<"A","P","I","-","U","R","L"," ","g","e","s","e","t","z","t",
        ":"," ">> \o api_url']]
  /\ UNCHANGED requests_sent
  /\ UNCHANGED <<parser_vars, classifier_vars, renderer_vars, page_vars, launcher_vars, unit_vars>>

\* what a call of the manager that sends a request leaves
Called(op, reply, result) ==
  /\ manager_call' = [op |-> op, reply |-> IF api_url = <<>> THEN None ELSE reply,
                      raised |-> result.raised, returned |-> result.returned]
  /\ requests_sent' = IF api_url = <<>> THEN requests_sent ELSE requests_sent + 1
  /\ UNCHANGED api_url
  /\ UNCHANGED <<parser_vars, classifier_vars, renderer_vars, page_vars, launcher_vars, unit_vars>>

\* ColabManager.check_connection()
check_connection(reply) ==
  /\ requests_sent < MaxRequests
  /\ Called("check_connection", reply, CheckConnectionResult(api_url, reply))

\* ColabManager.generate(params)
manager_generate(reply) ==
  /\ requests_sent < MaxRequests
  /\ Called("generate", reply, GenerateResult(api_url, reply))

TransportNext ==
  \/ \E url \in RangeOf(BackendUrl) : set_api_url(url)
  \/ \E reply \in Replies : check_connection(reply)
  \/ \E reply \in Replies : manager_generate(reply)

TransportSpec == Init /\ [][TransportNext]_vars

\* the call just made was check_connection or generate and met a transport
\* failure: no URL configured, a timeout, a connection failure or a status
\* other than 200
TransportFailed(made) ==
  /\ made.op \in {"check_connection", "generate"}
  /\ \/ made.reply = None
     \/ made.reply.kind \in {"timeout", "connection_error"}
     \/ made.reply.kind = "response" /\ made.reply.status_code # 200

\* C17: every transport failure of generate and check_connection (timeout,
\* connection failure, status other than 200, no configured URL) is returned
\* as a result with success false and a non-empty message, no exception
\* leaves the manager, and api_url is left as it was
C17_TransportFailureIsAResult ==
  [][(manager_call' # manager_call /\ TransportFailed(manager_call')) =>
       /\ ~manager_call'.raised
       /\ manager_call'.returned.success = FALSE
       /\ manager_call'.returned.message # <<>>
       /\ api_url' = api_url]_vars

\* generate has met a connection failure with a URL configured
C17_ConnectionFailureReturned ==
  /\ manager_call.op = "generate"
  /\ api_url # <<>>
  /\ manager_call.reply # None
  /\ manager_call.reply.kind = "connection_error"
  /\ manager_call.returned.success = FALSE

(***************************************************************************)
(* The generated page at run time: generate() and the three AI functions,  *)
(* with the calls they have pending on pywebview.api                       *)
(***************************************************************************)

\* generate() invocations that may be pending at once
MaxPending == 2

\* AI function invocations that may be pending at once
MaxEnrichments == 2

\* the page of a notebook with the fields is shown; ai_available is what
\* AIAssistant.is_available() answers in this process
load_page(fields, ai_available) ==
  /\ page = None
  /\ page' = [ty |-> "page", fields |-> fields, ai_available |-> ai_available]
  /\ UNCHANGED <<colabUrl, isGenerating, generate_btn_disabled, lastImageData,
                 result_status, form, generating, enrich_calls,
                 indicator_vars, host_vars>>
  /\ UNCHANGED <<parser_vars, classifier_vars, renderer_vars, transport_vars, launcher_vars, unit_vars>>

\* the user types a prompt or clears it, chooses an image file or none
EditForm(prompt, image) ==
  /\ page # None
  /\ prompt => "prompt" \in page.fields
  /\ image => "image" \in page.fields
  /\ form' = [prompt |-> prompt, image |-> image]
  /\ form' # form
  /\ UNCHANGED <<page, colabUrl, isGenerating, generate_btn_disabled,
                 lastImageData, result_status, generating, enrich_calls,
                 indicator_vars, host_vars>>
  /\ UNCHANGED <<parser_vars, classifier_vars, renderer_vars, transport_vars, launcher_vars, unit_vars>>

\* value.trim().replace(/\/$/, '') on the text of the URL field
PageUrl(text) ==
  IF text # <<>> /\ text[Len(text)] = "/" THEN Slice(text, 1, Len(text) - 1)
  ELSE text

\* testConnection() with the text in the URL field: set_colab_url hands the
\* URL to ColabManager.set_api_url, check_connection sends the health
\* request, which reply answers, and colabUrl = url when it reports success
testConnection(text, reply) ==
  /\ page # None
  /\ PageUrl(text) # <<>>
  /\ api_url' = Slice(PageUrl(text), 1,
                      RStripAt(PageUrl(text), {"/"}, Len(PageUrl(text))))
  /\ colabUrl' = IF CheckConnectionResult(api_url', reply).returned.success
                 THEN PageUrl(text) ELSE colabUrl
  /\ UNCHANGED <<page, isGenerating, generate_btn_disabled, lastImageData,
                 result_status, form, generating, enrich_calls,
                 indicator_vars, host_vars>>
  /\ UNCHANGED <<manager_call, requests_sent>>
  /\ UNCHANGED <<parser_vars, classifier_vars, renderer_vars, launcher_vars, unit_vars>>

\* generate() from "// UI aktualisieren" to "await pywebview.api.generate":
\* the invocation that was in from_stage now waits for the call, and
\* ColabManager.generate posts the request to api_url
StartCall(from_stage) ==
  /\ isGenerating' = TRUE
  /\ generate_btn_disabled' = TRUE
  /\ loading_hidden' = FALSE
  /\ result_status' = ""
  /\ progress_intervals' = progress_intervals + 1
  /\ posted_to' = api_url
  /\ generating' =
       IF from_stage = "collect"
       THEN [generating EXCEPT !.collect = @ - 1, !.call = @ + 1]
       ELSE [generating EXCEPT !.call = @ + 1]

\* generate() run by a click on generate-btn or by Ctrl+Enter, up to its
\* first wait for something outside the page: the guard, the connection
\* check, and the parameter collection, which waits for a FileReader when an
\* image field holds a file
generate(trigger) ==
  /\ page # None
  /\ trigger = "click" => ~generate_btn_disabled
  /\ generating.collect + generating.call + generating.settle_success
       + generating.settle_empty + generating.settle_failure < MaxPending
  /\ IF isGenerating
     THEN UNCHANGED <<isGenerating, generate_btn_disabled, result_status,
                      generating, indicator_vars, posted_to>>
     ELSE IF colabUrl = <<>>
     THEN /\ result_status' = "error"
          /\ UNCHANGED <<isGenerating, generate_btn_disabled, generating,
                         indicator_vars, posted_to>>
     ELSE IF form.image
     THEN /\ generating' = [generating EXCEPT !.collect = @ + 1]
          /\ UNCHANGED <<isGenerating, generate_btn_disabled, result_status,
                         indicator_vars, posted_to>>
     ELSE StartCall("trigger")
  /\ UNCHANGED <<page, colabUrl, lastImageData, form, enrich_calls,
                 last_image_data, saved_image>>
  /\ UNCHANGED <<parser_vars, classifier_vars, renderer_vars, transport_vars, launcher_vars, unit_vars>>

\* reader.onload of getImageBase64: the waiting generate() goes on
image_encoded ==
  /\ generating.collect > 0
  /\ StartCall("collect")
  /\ UNCHANGED <<page, colabUrl, lastImageData, form, enrich_calls,
                 last_image_data, saved_image>>
  /\ UNCHANGED <<parser_vars, classifier_vars, renderer_vars, transport_vars, launcher_vars, unit_vars>>

\* generate() whose catch clause leaves isGenerating, the button and the
\* loading indicator as they are
AnsweredWithoutCatchReset(outcome) ==
  /\ generating.call > 0
  /\ progress_intervals' = progress_intervals - 1
  /\ last_image_data' = IF outcome = "success" THEN "generated"
                        ELSE last_image_data
  /\ IF outcome = "rejected"
     THEN /\ generating' = [generating EXCEPT !.call = @ - 1]
          /\ result_status' = "error"
          /\ UNCHANGED <<loading_hidden, generate_btn_disabled, isGenerating>>
     ELSE /\ generating' =
               CASE outcome = "success" ->
                      [generating EXCEPT !.call = @ - 1, !.settle_success = @ + 1]
                 [] outcome = "success_empty" ->
                      [generating EXCEPT !.call = @ - 1, !.settle_empty = @ + 1]
                 [] outcome = "failure" ->
                      [generating EXCEPT !.call = @ - 1, !.settle_failure = @ + 1]
          /\ UNCHANGED <<loading_hidden, generate_btn_disabled, isGenerating,
                         result_status>>
  /\ UNCHANGED <<page, colabUrl, lastImageData, form, enrich_calls,
                 posted_to, saved_image>>
  /\ UNCHANGED <<parser_vars, classifier_vars, renderer_vars, transport_vars, launcher_vars, unit_vars>>

\* EnhancedColabAPI.generate returns and pywebview.api.generate answers a
\* waiting generate(): the result is a success with an image ("success"),
\* a success without one ("success_empty") or a failure, and the API has
\* kept the decoded image if there is one; or the method raised and the
\* promise is rejected.  The progress timer is cleared, a result starts the
\* 300 ms timer, a rejection runs the catch
generate_answered(outcome) ==
  /\ generating.call > 0
  /\ progress_intervals' = progress_intervals - 1
  /\ last_image_data' = IF outcome = "success" THEN "generated"
                        ELSE last_image_data
  /\ IF outcome = "rejected"
     THEN /\ generating' = [generating EXCEPT !.call = @ - 1]
          /\ loading_hidden' = TRUE
          /\ generate_btn_disabled' = FALSE
          /\ isGenerating' = FALSE
          /\ result_status' = "error"
     ELSE /\ generating' =
               CASE outcome = "success" ->
                      [generating EXCEPT !.call = @ - 1, !.settle_success = @ + 1]
                 [] outcome = "success_empty" ->
                      [generating EXCEPT !.call = @ - 1, !.settle_empty = @ + 1]
                 [] outcome = "failure" ->
                      [generating EXCEPT !.call = @ - 1, !.settle_failure = @ + 1]
          /\ UNCHANGED <<loading_hidden, generate_btn_disabled, isGenerating,
                         result_status>>
  /\ UNCHANGED <<page, colabUrl, lastImageData, form, enrich_calls,
                 posted_to, saved_image>>
  /\ UNCHANGED <<parser_vars, classifier_vars, renderer_vars, transport_vars, launcher_vars, unit_vars>>

\* the function handed to setTimeout(..., 300) runs for a result of the
\* kind: "lastImageData = result.image" whenever result.success
settle(outcome) ==
  /\ CASE outcome = "success" -> generating.settle_success > 0
       [] outcome = "success_empty" -> generating.settle_empty > 0
       [] outcome = "failure" -> generating.settle_failure > 0
  /\ generating' =
       CASE outcome = "success" -> [generating EXCEPT !.settle_success = @ - 1]
         [] outcome = "success_empty" -> [generating EXCEPT !.settle_empty = @ - 1]
         [] outcome = "failure" -> [generating EXCEPT !.settle_failure = @ - 1]
  /\ loading_hidden' = TRUE
  /\ generate_btn_disabled' = FALSE
  /\ isGenerating' = FALSE
  /\ lastImageData' = CASE outcome = "success" -> "generated"
                        [] outcome = "success_empty" -> ""
                        [] outcome = "failure" -> lastImageData
  /\ result_status' = IF outcome = "failure" THEN "error" ELSE "success"
  /\ UNCHANGED <<page, colabUrl, form, enrich_calls, progress_intervals,
                 host_vars>>
  /\ UNCHANGED <<parser_vars, classifier_vars, renderer_vars, transport_vars, launcher_vars, unit_vars>>

\* loadImage() and EnhancedColabAPI.load_image: the user picks a file in the
\* dialog, or cancels it (or reading the file fails)
loadImage(picked) ==
  /\ page # None
  /\ last_image_data' = IF picked THEN "loaded" ELSE last_image_data
  /\ lastImageData' = IF picked THEN "loaded" ELSE lastImageData
  /\ result_status' = IF picked THEN "success" ELSE result_status
  /\ UNCHANGED <<page, colabUrl, isGenerating, generate_btn_disabled, form,
                 generating, enrich_calls, indicator_vars, posted_to,
                 saved_image>>
  /\ UNCHANGED <<parser_vars, classifier_vars, renderer_vars, transport_vars, launcher_vars, unit_vars>>

\* saveImage() and EnhancedColabAPI.save_image: the page asks only when it
\* holds an image, the API opens the dialog only when it holds one, and
\* writes the file when the user names one
saveImage(named) ==
  /\ page # None
  /\ saved_image' = IF lastImageData # "" /\ last_image_data # "" /\ named
                    THEN last_image_data ELSE saved_image
  /\ result_status' = IF lastImageData # "" /\ last_image_data # "" /\ named
                      THEN "success" ELSE "error"
  /\ UNCHANGED <<page, colabUrl, isGenerating, generate_btn_disabled,
                 lastImageData, form, generating, enrich_calls,
                 indicator_vars, last_image_data, posted_to>>
  /\ UNCHANGED <<parser_vars, classifier_vars, renderer_vars, transport_vars, launcher_vars, unit_vars>>

\* improvePrompt(), generateNegativePrompt() or suggestSettings() up to its
\* await, and the method of EnhancedColabAPI it calls up to the call of the
\* AIAssistant: without the AI the method answers at once
enrich(function) ==
  /\ page # None
  /\ Len(enrich_calls) < MaxEnrichments
  /\ IF ~form.prompt
          \/ (function = "generateNegativePrompt"
                /\ "negative_prompt" \notin page.fields)
     THEN /\ result_status' = "error"
          /\ UNCHANGED enrich_calls
     ELSE /\ result_status' = "loading"
          /\ enrich_calls' =
               Append(enrich_calls,
                      [function |-> function,
                       stage |-> IF page.ai_available THEN "adapter"
                                 ELSE "answered",
                       success |-> page.ai_available
                                     \/ function # "improvePrompt"])
  /\ UNCHANGED <<page, colabUrl, isGenerating, generate_btn_disabled,
                 lastImageData, form, generating, indicator_vars, host_vars>>
  /\ UNCHANGED <<parser_vars, classifier_vars, renderer_vars, transport_vars, launcher_vars, unit_vars>>

\* the AIAssistant method of the i-th pending call returns (its own except
\* branches return a value too), and the API method returns success
adapter_returns(i) ==
  /\ enrich_calls[i].stage = "adapter"
  /\ enrich_calls' = [enrich_calls EXCEPT ![i].stage = "answered"]
  /\ UNCHANGED <<page, colabUrl, isGenerating, generate_btn_disabled,
                 lastImageData, result_status, form, generating,
                 indicator_vars, host_vars>>
  /\ UNCHANGED <<parser_vars, classifier_vars, renderer_vars, transport_vars, launcher_vars, unit_vars>>

\* the AI function waiting for the i-th call goes on after its await
enrich_answered(i) ==
  /\ enrich_calls[i].stage = "answered"
  /\ enrich_calls' = SubSeq(enrich_calls, 1, i - 1)
                     \o SubSeq(enrich_calls, i + 1, Len(enrich_calls))
  /\ result_status' = IF enrich_calls[i].success THEN "success" ELSE "error"
  /\ UNCHANGED <<page, colabUrl, isGenerating, generate_btn_disabled,
                 lastImageData, form, generating, indicator_vars, host_vars>>
  /\ UNCHANGED <<parser_vars, classifier_vars, renderer_vars, transport_vars, launcher_vars, unit_vars>>

PageNext ==
  \/ \E fields \in SUBSET {"prompt", "negative_prompt", "image"} :
       \E ai_available \in BOOLEAN : load_page(fields, ai_available)
  \/ \E prompt \in BOOLEAN, image \in BOOLEAN : EditForm(prompt, image)
  \/ \E reply \in Replies : testConnection(BackendUrl.a, reply)
  \/ \E trigger \in {"click", "ctrl_enter"} : generate(trigger)
  \/ image_encoded
  \/ \E outcome \in {"success", "success_empty", "failure", "rejected"} :
       generate_answered(outcome)
  \/ \E outcome \in {"success", "success_empty", "failure"} : settle(outcome)
  \/ \E function \in {"improvePrompt", "generateNegativePrompt",
                      "suggestSettings"} : enrich(function)
  \/ \E i \in DOMAIN enrich_calls : adapter_returns(i)
  \/ \E i \in DOMAIN enrich_calls : enrich_answered(i)

PageSpec == Init /\ [][PageNext]_vars

\* C15: at most one generate call to the Transport Adapter is pending at any
\* time, whatever the order of clicks and Ctrl+Enter, also while an earlier
\* generate() still waits for the base64 encoding of an image field
C15_OneGenerateCallPending ==
  generating.call <= 1

\* a second generate() has passed the guard while the first one still waits
\* for the encoding of an image
C15_SecondTriggerWhileEncoding ==
  /\ generating.collect = 2
  /\ ~isGenerating

\* C16: at most one call to the Enrichment Adapter is pending at any time,
\* whichever of the three AI functions are triggered while one is pending
C16_OneEnrichmentCallPending ==
  Cardinality({i \in DOMAIN enrich_calls : enrich_calls[i].stage = "adapter"}) <= 1

\* suggestSettings has been triggered while improvePrompt waits for the
\* AIAssistant, and both calls are pending
C16_SecondFunctionWhilePending ==
  /\ Len(enrich_calls) = 2
  /\ enrich_calls[1] = [function |-> "improvePrompt", stage |-> "adapter", success |-> TRUE]
  /\ enrich_calls[2] = [function |-> "suggestSettings", stage |-> "adapter", success |-> TRUE]

(***************************************************************************)
(* ColabGUIApp.load_notebook with the AI analysis, and LauncherAPI.start_gui *)
(***************************************************************************)

\* load_notebook calls made at most
MaxLoads == 2

\* sources of the cells of the notebooks loaded here
EnrichmentSources(cell_type) ==
  IF cell_type = "code"
  THEN {StrSource(CodeText.width_768), StrSource(CodeText.checkbox_on)}
  ELSE {StrSource(DocText.heading_a), StrSource(DocText.text_c)}

\* a key the JSON object of the answer does not have
Absent == [ty |-> "absent", n |-> 0, d |-> 1, s |-> <<>>]

\* what may come of the chat completion: an exception, or a message whose
\* JSON part is no JSON, a JSON array, or a JSON object with or without the
\* keys title and description (a key may hold null or ""), always with
\* suggested_parameters and a model_type of its own
AIReplies ==
  [kind : {"error", "not_json", "array"}, title : {Absent}, description : {Absent}]
  \cup [kind : {"object"},
        title : {Absent, None, StrV(<<>>), StrV(<<"A","I"," ","t","i","t","l","e">>)},
        description : {Absent, StrV(<<"A","I"," ","t","e","x","t">>)}]

\* dict.get(key, default) on the JSON object
GetOr(value, default) == IF value = Absent THEN default ELSE value

\* AIAssistant._fallback_analysis(existing_analysis)
fallback_analysis(existing_analysis) ==
  [ title |-> StrV(existing_analysis.title),
    description |-> StrV(existing_analysis.description),
    suggested_parameters |-> <<>>,
    model_type |-> existing_analysis.model_type ]

\* AIAssistant.analyze_notebook_code answering with the object whatever it is
TrustingAnalysis(existing_analysis, reply) ==
  [ title |-> GetOr(reply.title, StrV(<<"A","I"," ","t","i","t","l","e">>)),
    description |-> GetOr(reply.description, StrV(<<"A","I"," ","t","e","x","t">>)),
    suggested_parameters |-> <<<<"s","e","e","d">>>>,
    model_type |-> Str.flux ]

\* AIAssistant.analyze_notebook_code(code, existing_analysis) once the AI is
\* available, the chat completion ending as reply says
analyze_notebook_code(existing_analysis, reply) ==
  IF reply.kind # "object" THEN fallback_analysis(existing_analysis)
  ELSE [ title |-> GetOr(reply.title, StrV(existing_analysis.title)),
         description |-> GetOr(reply.description, StrV(<<>>)),
         suggested_parameters |-> <<<<"s","e","e","d">>>>,
         model_type |-> Str.flux ]

\* "if ai_result.title: ... if ai_result.description: ..." on the Analysis
Enriched(analysis, ai_result) ==
  [analysis EXCEPT
     !.title = IF Truthy(ai_result.title) THEN ai_result.title.s ELSE @,
     !.description =
        IF Truthy(ai_result.description) THEN ai_result.description.s ELSE @]

\* load_notebook up to the AI analysis, r being what parse_file did: the
\* except branch, the success dict when the AI is not available, or the wait
\* for the chat completion with the new Analysis already in place
LoadBegun(filename, ai_available, r) ==
  /\ parser_analysis' = IF r.raised THEN parser_analysis ELSE r.analysis
  /\ current_analysis' = IF r.raised THEN current_analysis ELSE r.analysis
  /\ gui_is_current' = IF r.raised THEN gui_is_current ELSE FALSE
  /\ load_pending' = ~r.raised /\ ai_available
  /\ notebook_loaded' = IF r.raised \/ ai_available THEN notebook_loaded ELSE TRUE
  /\ call' = [ op |-> "load_notebook", filename |-> filename, raised |-> FALSE,
               returned |-> IF r.raised THEN FailureResponse
                            ELSE IF ai_available THEN None
                            ELSE SuccessResponse(r.analysis),
               reply |-> None ]

\* ColabGUIApp.load_notebook(source) called from the launcher, for a file
\* holding the notebook or text that is no JSON
load_notebook(file_is_json, ai_available) ==
  /\ phase \in {"input", "called"}
  /\ ~load_pending
  /\ loads < MaxLoads
  /\ loads' = loads + 1
  /\ IF file_is_json
     THEN LoadBegun(FileName.ipynb, ai_available,
                    analyze_notebook(notebook, FileName.ipynb))
     ELSE LoadBegun(FileName.ipynb, ai_available,
                    [raised |-> TRUE, analysis |-> None])
  /\ phase' = "called"
  /\ UNCHANGED <<notebook, notebook_content, gui_analysis>>
  /\ UNCHANGED <<classifier_vars, renderer_vars, page_vars, transport_vars, unit_vars>>

\* the rest of load_notebook, ai_result being what analyze_notebook_code
\* returned: the Analysis current_analysis refers to is updated in place
LoadEnded(reply, enriched) ==
  /\ current_analysis' = enriched
  /\ parser_analysis' = enriched
  /\ gui_analysis' = IF gui_is_current THEN enriched ELSE gui_analysis
  /\ call' = [call EXCEPT !.returned = SuccessResponse(enriched),
                          !.reply = reply]

\* the chat completion of the waiting load_notebook ends
load_notebook_ends(reply) ==
  /\ load_pending
  /\ LoadEnded(reply, Enriched(current_analysis,
                               analyze_notebook_code(current_analysis, reply)))
  /\ load_pending' = FALSE
  /\ notebook_loaded' = TRUE
  /\ UNCHANGED <<notebook, phase, notebook_content, gui_is_current, loads>>
  /\ UNCHANGED <<classifier_vars, renderer_vars, page_vars, transport_vars, unit_vars>>

\* startGUI() of the launcher and LauncherAPI.start_gui: the Analysis
\* current_analysis refers to is handed to GUIGenerator
start_gui ==
  /\ notebook_loaded
  /\ current_analysis # None
  /\ gui_analysis = None
  /\ gui_analysis' = current_analysis
  /\ gui_is_current' = TRUE
  /\ UNCHANGED <<parser_vars, load_pending, notebook_loaded, loads>>
  /\ UNCHANGED <<classifier_vars, renderer_vars, page_vars, transport_vars, unit_vars>>

EnrichmentNext ==
  \/ \E cell_type \in {"code", "markdown"} :
       \E source \in EnrichmentSources(cell_type) :
         loads = 0 /\ AddCell(cell_type, source)
  \/ \E file_is_json \in BOOLEAN, ai_available \in BOOLEAN :
       load_notebook(file_is_json, ai_available)
  \/ \E reply \in AIReplies : load_notebook_ends(reply)
  \/ start_gui

EnrichmentSpec == Init /\ [][EnrichmentNext]_vars

\* the last load_notebook has returned, its file was read and analysed
LoadReturned ==
  /\ call.op = "load_notebook"
  /\ ~load_pending
  /\ call.returned # FailureResponse

\* the enrichment of the last load_notebook failed: the AI was not available
\* (no chat completion was made), the remote call raised, or the answer was
\* no JSON object
EnrichmentFailed ==
  call.reply = None \/ call.reply.kind \in {"error", "not_json", "array"}

C19_EnrichmentOnlyBeforeRenderer ==
  [][/\ (load_pending /\ ~load_pending') =>
          current_analysis' = [current_analysis EXCEPT
                                 !.title = current_analysis'.title,
                                 !.description = current_analysis'.description]
     /\ gui_analysis # None => gui_analysis' = gui_analysis]_vars

\* the enrichment half of C19 alone: title and description are all that the
\* end of load_notebook changes
EnrichmentFrame ==
  [][(load_pending /\ ~load_pending') =>
          current_analysis' = [current_analysis EXCEPT
                                 !.title = current_analysis'.title,
                                 !.description = current_analysis'.description]]_vars

\* the Analysis handed to GUIGenerator carries the title of the AI although
\* start_gui took it with the title of the engine
C19_EnrichedAfterStartGui ==
  /\ gui_analysis # None
  /\ gui_is_current
  /\ ~load_pending
  /\ call.reply # None
  /\ call.reply.kind = "object"
  /\ gui_analysis.title = <<"A","I"," ","t","i","t","l","e">>

(***************************************************************************)
(* The notebook "Sunset Generator"                                         *)
(***************************************************************************)

\* the lines of its two cells
SunsetText ==
  [ heading |-> <<"#"," ","S","u","n","s","e","t"," ","G","e","n","e","r","a",
        "t","o","r">>,
    prompt_x |-> <<"p","r","o","m","p","t"," ","="," ","'","x","'","\n">>,
    width_768 |-> <<"w","i","d","t","h"," ","="," ","7","6","8","\n">>,
    steps_30 |-> <<"s","t","e","p","s"," ","="," ","3","0","\n">> ]

\* the sources of its cells, and sources of other cells put around them
SunsetSources(cell_type) ==
  IF cell_type = "code"
  THEN { ListSource(<<SunsetText.prompt_x, SunsetText.width_768,
                      SunsetText.steps_30>>),
         StrSource(SunsetText.steps_30),
         StrSource(CodeText.slider_steps),
         StrSource(CodeText.show_1) }
  ELSE { ListSource(<<SunsetText.heading>>),
         StrSource(DocText.heading_a),
         StrSource(DocText.text_c) }

\* {"cells": [{"cell_type": "markdown", "source": ["# Sunset Generator"]},
\*            {"cell_type": "code", "source": ["prompt = 'x'\n",
\*                                             "width = 768\n", "steps = 30\n"]}]}
SunsetCells ==
  << [cell_type |-> "markdown", source |-> ListSource(<<SunsetText.heading>>)],
     [cell_type |-> "code",
      source |-> ListSource(<<SunsetText.prompt_x, SunsetText.width_768,
                              SunsetText.steps_30>>)] >>

SunsetNext ==
  \/ \E cell_type \in {"code", "markdown"} :
       \E source \in SunsetSources(cell_type) : AddCell(cell_type, source)
  \/ \E filename \in RangeOf(FileName) : parse_json(filename)

SunsetSpec == Init /\ [][SunsetNext]_vars

\* the parameter of the list with the name and the default
HasDefault(parameters, name, default_value) ==
  \E i \in 1..Len(parameters) :
    /\ parameters[i].name = name
    /\ parameters[i].default_value = default_value

\* C20: for the notebook with the markdown cell "# Sunset Generator" and the
\* code cell with the lines "prompt = 'x'", "width = 768", "steps = 30",
\* the analysis returns the title "Sunset Generator", a parameter width with
\* default 768, a parameter steps with default 30, and model type unknown
C20_SunsetScenario ==
  (phase = "called" /\ notebook.cells = SunsetCells) =>
    /\ ~call.raised
    /\ call.returned.title = <<"S","u","n","s","e","t"," ","G","e","n","e","r","a","t","o",
        "r">>
    /\ HasDefault(call.returned.parameters, Str.width, IntV(768))
    /\ HasDefault(call.returned.parameters, Str.steps, IntV(30))
    /\ call.returned.model_type = Str.unknown

\* the notebook has been analysed: the whole of what came back (prompt and
\* height are parameters too, and the default output is the one output)
C20_SunsetAnalysed ==
  /\ phase = "called"
  /\ notebook.cells = SunsetCells
  /\ ~call.raised
  /\ call.returned.description = <<>>
  /\ [i \in 1..Len(call.returned.parameters) |->
        <<call.returned.parameters[i].name,
          call.returned.parameters[i].default_value>>]
       = << <<Str.prompt, StrV(<<>>)>>, <<Str.width, IntV(768)>>,
            <<Str.height, IntV(768)>>, <<Str.steps, IntV(30)>> >>
  /\ Len(call.returned.outputs) = 1

(***************************************************************************)
(* NotebookParser._sanitize_name, applied to a label and to its own result *)
(***************************************************************************)

\* longest label typed
MaxLabel == 3

\* most passes of the sanitizer over one label
MaxPasses == 2

\* the characters labels are typed from
LabelChars == {"A", "b", "1", "_", " ", "-"}

\* a character is added to the label (the label= of a constructor call)
TypeLabel(c) ==
  /\ names = <<>>
  /\ Len(label) < MaxLabel
  /\ label' = Append(label, c)
  /\ UNCHANGED <<names, app_vars, account_vars>>

\* self._sanitize_name(label), then self._sanitize_name of what it returned
sanitize ==
  /\ Len(names) < MaxPasses
  /\ names' = Append(names, sanitize_name(IF names = <<>> THEN label
                                          ELSE names[Len(names)]))
  /\ UNCHANGED <<label, app_vars, account_vars>>

SanitizerNext ==
  \/ \E c \in LabelChars : TypeLabel(c)
  \/ sanitize

SanitizerSpec == Init /\ [][SanitizerNext]_vars

\* lowercase, within [a-z0-9_], no "__", no '_' at either end
WellFormedName(name) ==
  /\ \A i \in 1..Len(name) : name[i] \in LowerChars \cup DigitChars \cup {"_"}
  /\ \A i \in 1..Len(name) - 1 : ~(name[i] = "_" /\ name[i + 1] = "_")
  /\ name # <<>> => (name[1] # "_" /\ name[Len(name)] # "_")

ProseText ==
  [ heading_prose |-> <<"#"," ","B","\n","d"," ","e","\n">>,
    tag_prose |-> <<"#","x","\n","\n","f">>,
    blank |-> <<" ","\n">>,
    long |-> [i \in 1..510 |-> IF i % 40 = 0 THEN " " ELSE "g"] ]

\* the sources of the cells of these notebooks
MetadataSources(cell_type) ==
  IF cell_type = "code"
  THEN {StrSource(CodeText.width_768)}
  ELSE {StrSource(t) : t \in RangeOf(ProseText)}
         \cup {StrSource(DocText.heading_a), StrSource(DocText.text_c),
               ListSource(<<DocText.heading_b, DocText.text_c>>), NoSource}

MetadataNext ==
  \/ \E cell_type \in {"code", "markdown"} :
       \E source \in MetadataSources(cell_type) : AddCell(cell_type, source)
  \/ \E filename \in RangeOf(FileName) : parse_json(filename)

MetadataSpec == Init /\ [][MetadataNext]_vars

\* the text from position i on with every line that starts with '#' emptied
RECURSIVE WithoutHeadingLines(_, _)
WithoutHeadingLines(text, i) ==
  IF i > Len(text) THEN <<>>
  ELSE (IF text[i] = "#" THEN <<>>
        ELSE Slice(text, i, RunEnd(text, i, "dot") - 1))
       \o (IF RunEnd(text, i, "dot") <= Len(text)
           THEN <<NL>> \o WithoutHeadingLines(text, RunEnd(text, i, "dot") + 1)
           ELSE <<>>)

\* the heading-stripped text of a documentation cell
HeadingStripped(text) == Strip(WithoutHeadingLines(text, 1), SpaceChars)

\* the documentation cells whose heading-stripped text is non-empty
WithProse == {i \in 1..Len(DocTexts) : HeadingStripped(DocTexts[i]) # <<>>}

StubText ==
  [ cfg_750 |-> <<"c","f","g"," ","="," ","7",".","5","0","\n">>,
    seed_1 |-> <<"s","e","e","d"," ","="," ","1","\n">> ]

\* the sources of the cells of the notebooks a stub is generated for
StubSources(cell_type) ==
  IF cell_type = "code"
  THEN {StrSource(t) : t \in RangeOf(StubText)}
         \cup {StrSource(CodeText.width_768), StrSource(CodeText.textbox_punct),
               StrSource(CodeText.slider_steps), StrSource(CodeText.image_a_b)}
  ELSE {StrSource(DocText.heading_a)}

StubNext ==
  \/ \E cell_type \in {"code", "markdown"} :
       \E source \in StubSources(cell_type) : AddCell(cell_type, source)
  \/ \E filename \in RangeOf(FileName) : parse_json(filename)

StubSpec == Init /\ [][StubNext]_vars

RECURSIVE LinesFrom(_, _, _)

\* the line from position i to before line_end, and the lines after it
LineAndRest(text, i, line_end, ends) ==
  <<Slice(text, i, line_end - 1)>> \o LinesFrom(text, line_end + 1, ends)

\* the lines of a text from position i on, without their line ends, which
\* are at the positions ends
LinesFrom(text, i, ends) ==
  IF i > Len(text) THEN <<>>
  ELSE LineAndRest(text, i, Least({j \in ends : j >= i}), ends)

\* text.split('\n') without the empty piece after a last line end
Lines(text) ==
  LinesFrom(text, 1, {j \in 1..Len(text) : text[j] = NL} \cup {Len(text) + 1})

\* the lines of the stub that read the request body
ExtractionLines(api_code) ==
  SelectSeq(Lines(api_code), LAMBDA l : Contains(l, <<"d","a","t","a",".","g","e","t","(">>))

\* the value a Python literal of the stub denotes
LiteralValue(text) ==
  IF text = <<"N","o","n","e">> THEN None
  ELSE IF text[1] = "'" THEN StrV(Slice(text, 2, Len(text) - 1))
  ELSE IF Contains(text, <<".">>) THEN ParseFloat(text).value
  ELSE IF text[1] = "-" THEN IntV(0 - ParseInt(Tail(text)).n)
  ELSE ParseInt(text)

\* the same Python value (floats compared as numbers)
SameValue(a, b) == a.ty = b.ty /\ a.s = b.s /\ a.n * b.d = b.n * a.d

\* the line assigns to the name what the request body holds under the name,
\* or else the default
ExtractsParameter(line, start, param) ==
  /\ Len(line) > Len(start) + 1
  /\ SubSeq(line, 1, Len(start)) = start
  /\ line[Len(line)] = ")"
  /\ SameValue(LiteralValue(SubSeq(line, Len(start) + 1, Len(line) - 1)),
               param.default_value)

\* line k extracts parameter k, for every parameter, and no line is left
EachExtractedOnce(lines, parameters) ==
  /\ Len(lines) = Len(parameters)
  /\ \A k \in 1..Len(parameters) :
       ExtractsParameter(lines[k],
                         <<" "," "," "," "," "," "," "," ">> \o parameters[k].name \o <<" ","="," ","d","a","t","a",".","g","e","t","(","'">>
                           \o parameters[k].name \o <<"'",","," ">>,
                         parameters[k])

\* C23: the generation route of the stub has exactly one extraction
\* statement per Parameter of the final list, in list order, each reading
\* the request body by the Parameter's name with the Parameter's default as
\* the fallback; none is left out or extracted twice
C23_OneExtractionPerParameter ==
  Returned =>
    EachExtractedOnce(ExtractionLines(parser_analysis.api_code),
                      parser_analysis.parameters)

\* the stub of a notebook with "cfg = 7.50" and "seed = 1" has been
\* generated: cfg_scale falls back to 7.5 and seed to -1
C23_FloatAndNegativeDefaults ==
  /\ Returned
  /\ Len(parser_analysis.parameters) = 2
  /\ ExtractionLines(parser_analysis.api_code) =
       << <<" "," "," "," "," "," "," "," ","c","f","g","_","s","c","a",
        "l","e"," ","="," ","d","a","t","a",".","g","e","t","(",
        "'","c","f","g","_","s","c","a","l","e","'",","," ","7",
        ".","5",")">>,
          <<" "," "," "," "," "," "," "," ","s","e","e","d"," ","="," ",
        "d","a","t","a",".","g","e","t","(","'","s","e","e","d",
        "'",","," ","-","1",")">> >>

(***************************************************************************)
(* Invariants of the schema of an analysis                                 *)
(***************************************************************************)

\* code with slider constructor calls whose label names no standard
\* parameter, a choice constructor call, and assignments outside the ranges
\* of the standard sliders
SchemaText ==
  [ slider_mix |-> <<"g","r",".","S","l","i","d","e","r","(","m","i","n","i","m",
        "u","m","=","1",","," ","m","a","x","i","m","u","m","=",
        "9",","," ","l","a","b","e","l","=","'","M","i","x","'",
        ")","\n">>,
    slider_inverted |-> <<"g","r",".","S","l","i","d","e","r","(","m","i","n","i","m",
        "u","m","=","9",","," ","m","a","x","i","m","u","m","=",
        "1",","," ","l","a","b","e","l","=","'","I","n","v","'",
        ")","\n">>,
    dropdown_m |-> <<"g","r",".","D","r","o","p","d","o","w","n","(","c","h","o",
        "i","c","e","s","=","[","'","a","'","]",","," ","l","a",
        "b","e","l","=","'","M","'",")","\n">>,
    width_2048 |-> <<"w","i","d","t","h"," ","="," ","2","0","4","8","\n">>,
    steps_4 |-> <<"s","t","e","p","s"," ","="," ","4","\n">> ]

\* the sources of the cells of these notebooks
SchemaSources(cell_type) ==
  IF cell_type = "code"
  THEN {StrSource(t) : t \in RangeOf(SchemaText)}
         \cup {StrSource(CodeText.textbox_punct), StrSource(CodeText.image_a_b)}
  ELSE {StrSource(DocText.heading_a)}

SchemaNext ==
  \/ \E cell_type \in {"code", "markdown"} :
       \E source \in SchemaSources(cell_type) : AddCell(cell_type, source)
  \/ \E filename \in RangeOf(FileName) : parse_json(filename)

SchemaSpec == Init /\ [][SchemaNext]_vars

\* the closed enumeration of kinds: text, multiline text, number, range,
\* boolean, choice, file, image
EightKinds == RangeOf(ParameterType) \ {ParameterType.COLOR}

\* C24: in every Analysis the engine returns, each Parameter's kind is one
\* of the eight kinds (never color); min, max and step are present only on
\* Parameters of kind number or range; a non-empty list of choices is
\* present only on Parameters of kind choice
C24_SchemaInvariant ==
  Returned =>
    \A i \in 1..Len(parser_analysis.parameters) :
      /\ parser_analysis.parameters[i].param_type \in EightKinds
      /\ \/ parser_analysis.parameters[i].param_type
              \in {ParameterType.NUMBER, ParameterType.SLIDER}
         \/ /\ parser_analysis.parameters[i].min_value = None
            /\ parser_analysis.parameters[i].max_value = None
            /\ parser_analysis.parameters[i].step = None
      /\ \/ parser_analysis.parameters[i].param_type = ParameterType.DROPDOWN
         \/ parser_analysis.parameters[i].options = <<>>

\* an Analysis with a range Parameter taken from a slider constructor call
\* (min and max set, no step) next to a text Parameter has been returned
C24_SliderAndTextAnalysed ==
  /\ Returned
  /\ \E i, j \in 1..Len(parser_analysis.parameters) :
       /\ parser_analysis.parameters[i].param_type = ParameterType.SLIDER
       /\ parser_analysis.parameters[i].min_value = FloatV(1, 1)
       /\ parser_analysis.parameters[i].max_value = FloatV(9, 1)
       /\ parser_analysis.parameters[i].step = None
       /\ parser_analysis.parameters[j].param_type = ParameterType.TEXT

\* a <= b for Python numbers
NumberLeq(a, b) == a.n * b.d <= b.n * a.d

\* the Parameters of kind range of a list
Ranges(parameters) ==
  SelectSeq(parameters, LAMBDA p : p.param_type = ParameterType.SLIDER)

\* C28: for every Parameter of kind range of an Analysis, min <= max and,
\* when a default is present, min <= default <= max, also when the default
\* comes from an assignment in the notebook and when min and max come from
\* a slider constructor call
C28_RangeHoldsDefault ==
  Returned =>
    \A i \in 1..Len(Ranges(parser_analysis.parameters)) :
      /\ NumberLeq(Ranges(parser_analysis.parameters)[i].min_value,
                   Ranges(parser_analysis.parameters)[i].max_value)
      /\ Ranges(parser_analysis.parameters)[i].default_value # None =>
           /\ NumberLeq(Ranges(parser_analysis.parameters)[i].min_value,
                        Ranges(parser_analysis.parameters)[i].default_value)
           /\ NumberLeq(Ranges(parser_analysis.parameters)[i].default_value,
                        Ranges(parser_analysis.parameters)[i].max_value)

\* the notebook with "width = 2048" has been analysed: the width slider has
\* the default 2048 and the maximum 1024
C28_DefaultAboveMaximum ==
  /\ Returned
  /\ \E i \in 1..Len(parser_analysis.parameters) :
       /\ parser_analysis.parameters[i].name = Str.width
       /\ parser_analysis.parameters[i].param_type = ParameterType.SLIDER
       /\ parser_analysis.parameters[i].default_value = IntV(2048)
       /\ parser_analysis.parameters[i].max_value = IntV(1024)

(***************************************************************************)
(* A session of the generated page with the host API behind it:           *)
(* connection tests, generations, loading and saving of images            *)
(***************************************************************************)

\* the page is shown, the user tests connections to two backends, starts
\* generations and loads and saves images
SessionNext ==
  \/ \E ai_available \in BOOLEAN : load_page({"prompt"}, ai_available)
  \/ \E text \in {BackendUrl.a, BackendUrl.a_slash, BackendUrl.b} :
       \E reply \in Replies : testConnection(text, reply)
  \/ \E trigger \in {"click", "ctrl_enter"} : generate(trigger)
  \/ \E outcome \in {"success", "success_empty", "failure", "rejected"} :
       generate_answered(outcome)
  \/ \E outcome \in {"success", "success_empty", "failure"} : settle(outcome)
  \/ \E picked \in BOOLEAN : loadImage(picked)
  \/ \E named \in BOOLEAN : saveImage(named)

SessionSpec == Init /\ [][SessionNext]_vars

\* requests.post(..., timeout=300) ends every bridge call and the browser
\* runs every timer that was set
SessionLiveSpec ==
  /\ SessionSpec
  /\ WF_vars(\E outcome \in {"success", "success_empty", "failure", "rejected"} : generate_answered(outcome))
  /\ WF_vars(\E outcome \in {"success", "success_empty", "failure"} : settle(outcome))

\* the page as it is when no generation runs
Finished ==
  /\ ~isGenerating
  /\ ~generate_btn_disabled
  /\ loading_hidden
  /\ progress_intervals = 0

\* C25: every generation that was started finishes for the page: whatever
\* the bridge call yields, isGenerating returns to false, the button is
\* enabled, the loading indicator hidden and the progress timer cleared
C25_GenerationFinishes ==
  isGenerating ~> Finished

\* a generation whose bridge call raised has finished
C25_FinishedAfterRejection ==
  /\ Finished
  /\ posted_to # <<>>
  /\ result_status = "error"
  /\ generating.call = 0

\* C26: generate posts only to the URL the page recorded as connected
\* (trailing slashes aside, which set_api_url removes)
C26_PostsToConnectedUrl ==
  [][generating'.call > generating.call
       => posted_to' = Slice(colabUrl, 1, RStripAt(colabUrl, {"/"}, Len(colabUrl)))]_vars

\* a generation was posted to a URL whose test failed, while the page
\* records another URL as connected
C26_PostedToFailedUrl ==
  /\ generating.call = 1
  /\ colabUrl = BackendUrl.a
  /\ posted_to = <<"h","t","t","p",":","/","/","b">>

\* C27: when no generation is in flight, the page and the host hold the same
\* image or both hold none
C27_ImageRecordsConsistent ==
  generating.call + generating.settle_success + generating.settle_empty
    + generating.settle_failure = 0
  => lastImageData = last_image_data

\* C27: a success result without an image leaves both records as they were
C27_EmptySuccessKeepsRecords ==
  [][generating'.settle_empty < generating.settle_empty
       => /\ lastImageData' = lastImageData
          /\ last_image_data' = last_image_data]_vars

\* after a success result without an image the page holds no image while
\* the host still holds the one generated before
C27_PageLostImage ==
  /\ Finished
  /\ generating.call + generating.settle_success + generating.settle_empty
       + generating.settle_failure = 0
  /\ lastImageData = ""
  /\ last_image_data = "generated"

(***************************************************************************)
(* The fields of the page against the collection rules                     *)
(***************************************************************************)

\* the positions of the fields of the page that belong to the parameter
ControlsOf(name) == {j \in DOMAIN PageFields : PageFields[j].name = name}

\* the parameter has exactly one field and one rule, and the rule reads the
\* element of the field
RenderedAndCollected(i) ==
  /\ Cardinality(ControlsOf(gui_parameters[i].name)) = 1
  /\ Cardinality({k \in DOMAIN html.collection : html.collection[k].name = gui_parameters[i].name}) = 1
  /\ \A j \in ControlsOf(gui_parameters[i].name) :
       PageFields[j].id = html.collection[i].id

Emails == {<<"a","@","x">>, <<"b","@","x">>, <<"c">>}

\* names handed to add_account
AccountNames == {<<>>, <<"N">>}

\* email.split('@')[0]
LocalPart(email) ==
  IF \E i \in DOMAIN email : email[i] = "@"
  THEN Slice(email, 1, Least({i \in DOMAIN email : email[i] = "@"}) - 1)
  ELSE email

\* GoogleAccount(email=email, name=name, is_default=is_default)
GoogleAccount(email, name, is_default) ==
  [email |-> email, name |-> name, profile_picture |-> None,
   is_default |-> is_default]

\* the e-mail addresses of the accounts
EmailsOf(list) == {list[i].email : i \in DOMAIN list}

\* add_account without the search for the e-mail address
AppendedAccounts(list, email, name, is_default) ==
  Append(IF is_default
         THEN [i \in DOMAIN list |-> [list[i] EXCEPT !.is_default = FALSE]]
         ELSE list,
         GoogleAccount(email, IF name # <<>> THEN name ELSE LocalPart(email),
                       is_default))

\* ColabManager.accounts after add_account(email, name, is_default)
AddedAccounts(list, email, name, is_default) ==
  IF email \in EmailsOf(list) THEN list
  ELSE Append(IF is_default
              THEN [i \in DOMAIN list |-> [list[i] EXCEPT !.is_default = FALSE]]
              ELSE list,
              GoogleAccount(email, IF name # <<>> THEN name ELSE LocalPart(email),
                            is_default))

\* _save_accounts: the file is written, or the exception of a failed write
\* is swallowed and the file stays as it was
save_accounts(written) ==
  accounts_file' = IF written THEN accounts' ELSE accounts_file

\* ColabManager.add_account: nothing is saved when the account exists
add_account(email, name, is_default, written) ==
  /\ accounts' = AddedAccounts(accounts, email, name, is_default)
  /\ IF email \in EmailsOf(accounts) THEN UNCHANGED accounts_file
     ELSE save_accounts(written)
  /\ account_call' = [op |-> "add_account", email |-> email, returned |-> None]
  /\ UNCHANGED <<app_vars, sanitizer_vars>>

\* what ColabManager.get_default_account returns for the list
DefaultAccount(list) ==
  IF \E i \in DOMAIN list : list[i].is_default
  THEN list[Least({i \in DOMAIN list : list[i].is_default})]
  ELSE IF list # <<>> THEN list[1] ELSE None

\* ColabManager.get_default_account
get_default_account ==
  /\ account_call' = [op |-> "get_default_account", email |-> <<>>,
                      returned |-> DefaultAccount(accounts)]
  /\ UNCHANGED <<accounts, accounts_file, app_vars, sanitizer_vars>>

\* ColabManager.set_default_account
set_default_account(email, written) ==
  /\ accounts' = [i \in DOMAIN accounts |->
                    [accounts[i] EXCEPT !.is_default = (accounts[i].email = email)]]
  /\ save_accounts(written)
  /\ account_call' = [op |-> "set_default_account", email |-> email,
                      returned |-> None]
  /\ UNCHANGED <<app_vars, sanitizer_vars>>

AccountNext ==
  \/ \E email \in Emails, name \in AccountNames, is_default \in BOOLEAN, written \in BOOLEAN :
       add_account(email, name, is_default, written)
  \/ get_default_account
  \/ \E email \in Emails, written \in BOOLEAN : set_default_account(email, written)

AccountSpec == Init /\ [][AccountNext]_vars

\* the positions of the accounts marked as default
Marked(list) == {i \in DOMAIN list : list[i].is_default}

\* e-mail addresses pairwise distinct, at most one default account, and an
\* account returned as default whenever there is one: the marked one,
\* otherwise the first
AccountsWellFormed ==
  /\ \A i, j \in DOMAIN accounts :
       accounts[i].email = accounts[j].email => i = j
  /\ Cardinality(Marked(accounts)) <= 1
  /\ accounts # <<>> =>
       /\ DefaultAccount(accounts) # None
       /\ \A i \in Marked(accounts) : DefaultAccount(accounts) = accounts[i]
       /\ Marked(accounts) = {} => DefaultAccount(accounts) = accounts[1]
  /\ account_call.op = "get_default_account" /\ accounts # <<>>
       => account_call.returned \in RangeOf(accounts)

\* add_account with an e-mail address of the list leaves the list as it is
ExistingEmailChangesNothing ==
  account_call'.op = "add_account" /\ account_call'.email \in EmailsOf(accounts)
    => accounts' = accounts

\* C30: starting from an empty list, after any sequence of add_account and
\* set_default_account calls the e-mail addresses are pairwise distinct
\* (adding an existing one changes nothing, its default flag included), at
\* most one account is marked default, and get_default_account returns an
\* account whenever the list is not empty (the marked one if any, otherwise
\* the first)
C30_AccountsWellFormed ==
  []AccountsWellFormed /\ [][ExistingEmailChangesNothing]_vars

\* three accounts were added, the second one is the only one marked, and
\* get_default_account has returned it
C30_SecondDefaultAdded ==
  /\ Len(accounts) = 3
  /\ Marked(accounts) = {2}
  /\ account_call.op = "get_default_account"
  /\ account_call.returned = accounts[2]

====
